---- MODULE Spec2Model ----
(***************************************************************************)
(* Model of the drift-detection subsystem of C010_standards:               *)
(*   scripts/drift/models.py      Severity, Finding, FindingCounter,       *)
(*                                DriftReport                              *)
(*   scripts/drift/defaults.py    universal_rules, resolve_rules           *)
(*   scripts/drift/level1.py      run_level1 and its seven checks          *)
(*   scripts/drift/level2.py      validator consistency, internal links,   *)
(*                                generator drift                          *)
(*   scripts/drift/level3.py      reference graph, orphan candidates,      *)
(*                                misplaced artifacts                      *)
(*   scripts/drift/reporters.py   report file names                        *)
(*   scripts/drift/extractors.py  link and path-reference extraction       *)
(*   scripts/repo_drift_detector.py  load_rules, get_git_info, main        *)
(*   validators/run_all.py        main                                     *)
(*                                                                         *)
(* Specifications:                                                         *)
(*   Spec          one CLI run of main()                                   *)
(*   SpecRules     one CLI run of main() over every state of the rules     *)
(*                 files                                                   *)
(*   SpecResolve   one call of resolve_rules()                             *)
(*   SpecSeverity  sorted() over lists of Severity                         *)
(*   SpecL3        one call of run_level3() on a small repository          *)
(*   SpecLinks     one call of _check_internal_links()                     *)
(*   SpecValidators  one call of _check_validator_consistency()            *)
(*   SpecGenerator one call of _check_generator_drift()                    *)
(*   SpecStale     one call of _check_stale_paths()                        *)
(*   SpecMisplaced _find_misplaced_artifacts() over validators/            *)
(*   SpecReports   sequences of write_markdown_report() and                *)
(*                 write_json_report() into one directory                  *)
(*   SpecLevel2    the profile gate of run_level2()                        *)
(*   SpecExtract   one call of an extractor                                *)
(*   SpecDelegated the delegated validators at the end of run_level1()     *)
(*   SpecGitInfo   one call of get_git_info()                              *)
(*   SpecInventory one call of _check_validator_inventory()                *)
(*   SpecMalformed _check_stale_paths() over malformed rules               *)
(*   SpecLevel1    two calls of run_level1() on one repository             *)
(*   SpecRunAll    one call of run_all's main()                            *)
(*   SpecFence     one call of extract_internal_links(), line by line      *)
(*   SpecGraph     one call of _build_reference_graph()                    *)
(*   SpecStaleScan _check_stale_paths() over scopes that list a file twice *)
(***************************************************************************)
EXTENDS Integers, Sequences, FiniteSets, TLC

VARIABLES
    pc,           \* position of main(): start, level<k>, in_level<k>, report, exit,
                  \* done, raised
    args,         \* parsed command line (argparse.Namespace)
    env,          \* what main() finds on disk for the rules files, and HAS_YAML
    rules,        \* the value main() hands to the level checkers
    counts,       \* FindingCounter._counts
    findings,     \* main()'s findings list
    todo,         \* issues the running level has met and not yet reported
    ran,          \* the levels whose run_level<k> has been called, in call order
    written,      \* report formats written by this run
    json_summary, \* the summary block re-parsed from the JSON report
    exit_code,    \* process exit status, -1 while running
    rr,           \* resolve_rules(): inputs and outcome
    sv,           \* sorted(): input list, result, result of sorting the result
    l3,           \* run_level3(): repository, rules, graphs, findings
    l1,           \* a Level 1 sub-check called on its own: inputs, findings
    l2,           \* a Level 2 sub-check called on its own: inputs, findings
    rp,           \* the report writers: output directory, files written
    xt            \* an extractor called on its own: file state, outcome

vars == <<pc, args, env, rules, counts, findings, todo, ran, written,
          json_summary, exit_code, rr, sv, l3, l1, l2, rp, xt>>

Idle == [state |-> "idle"]

\* the variables of the sub-checks, report writers and extractors
callVars == <<l1, l2, rp, xt>>

CallsIdle == l1 = Idle /\ l2 = Idle /\ rp = Idle /\ xt = Idle

(***************************************************************************)
(* Bounds                                                                  *)
(***************************************************************************)
\* largest number of issues of one kind one sub-check finds in a short run
MaxIssues == 2
\* number of matches of one stale-path rule in the long scenario
LongRun == 1000
\* longest list handed to sorted()
MaxSortLen == 3

(***************************************************************************)
(* models.py: Severity                                                     *)
(***************************************************************************)
Severity == {"CRITICAL", "MAJOR", "MINOR", "INFO"}

\* the list `order` of Severity.__lt__
order == <<"INFO", "MINOR", "MAJOR", "CRITICAL">>

\* list.index(x): position of the first occurrence (0-based, as in Python)
index(seq, x) ==
    (CHOOSE i \in 1..Len(seq) : seq[i] = x /\ \A j \in 1..(i - 1) : seq[j] # x) - 1

Severity_lt_swapped(self, other) ==
    index(<<"INFO", "MAJOR", "MINOR", "CRITICAL">>, self)
        < index(<<"INFO", "MAJOR", "MINOR", "CRITICAL">>, other)

Severity_lt(self, other) == index(order, self) < index(order, other)

(***************************************************************************)
(* models.py: FindingCounter and the id format                             *)
(***************************************************************************)
RECURSIVE Digits(_)
\* decimal digits of a natural number, most significant first (format "d")
Digits(n) == IF n < 10 THEN <<n>> ELSE Append(Digits(n \div 10), n % 10)

RECURSIVE ZeroPad(_, _)
ZeroPad(ds, width) == IF Len(ds) >= width THEN ds ELSE ZeroPad(<<0>> \o ds, width)

\* f"{n:03d}": zero-padded to a minimum width of three
Format03d(n) == ZeroPad(Digits(n), 3)

\* FindingCounter.__init__
FindingCounter_init == [l \in 1..3 |-> 0]

next_id_one_sequence(c, level) ==
    LET c2 == [l \in 1..3 |-> c[l] + 1]
    IN [counts |-> c2,
        id |-> [prefix |-> "DRIFT-L", level |-> level, seq |-> Format03d(c2[level])]]

next_id_no_increment(c, level) ==
    [counts |-> c,
     id |-> [prefix |-> "DRIFT-L", level |-> level, seq |-> Format03d(c[level] + 1)]]

\* FindingCounter.next_id: the new counter and the id f"DRIFT-L{level}-{n:03d}"
next_id(c, level) ==
    LET c2 == [c EXCEPT ![level] = @ + 1]
    IN [counts |-> c2,
        id |-> [prefix |-> "DRIFT-L", level |-> level, seq |-> Format03d(c2[level])]]


(***************************************************************************)
(* models.py: Finding and DriftReport                                      *)
(***************************************************************************)
\* Finding(id=counter.next_id(level), level_detected=level, ...) as the
\* checkers build it; `kind` carries the fields the sub-check sets
Finding(id, level, kind) ==
    [id |-> id, level_detected |-> level, severity |-> kind.severity,
     category |-> kind.category, confidence |-> kind.confidence,
     requires_review |-> kind.requires_review]

\* DriftReport.counts_by_severity: counts[f.severity] += 1 over the findings
counts_by_severity(fs) ==
    [s \in Severity |-> Cardinality({i \in 1..Len(fs) : fs[i].severity = s})]

\* DriftReport.has_critical
has_critical(fs) == \E i \in 1..Len(fs) : fs[i].severity = "CRITICAL"

to_dict_summary_minor_as_major(fs) ==
    LET c == counts_by_severity(fs)
    IN [critical |-> c["CRITICAL"], major |-> c["MINOR"], minor |-> c["MINOR"],
        info |-> c["INFO"], total |-> Len(fs)]

\* DriftReport.to_dict()["summary"]
to_dict_summary(fs) ==
    LET c == counts_by_severity(fs)
    IN [critical |-> c["CRITICAL"], major |-> c["MAJOR"], minor |-> c["MINOR"],
        info |-> c["INFO"], total |-> Len(fs)]

\* json.dumps of an int: its decimal digits
json_dumps_int(n) == Digits(n)

RECURSIVE json_loads_int(_)
\* json.loads of a run of decimal digits
json_loads_int(ds) ==
    IF Len(ds) = 1 THEN ds[1]
    ELSE 10 * json_loads_int(SubSeq(ds, 1, Len(ds) - 1)) + ds[Len(ds)]

\* the summary block of write_json_report's file, parsed again
json_round_trip_summary(fs) ==
    LET d == to_dict_summary(fs)
    IN [k \in DOMAIN d |-> json_loads_int(json_dumps_int(d[k]))]


(***************************************************************************)
(* Rules files and rule sets                                               *)
(*                                                                         *)
(* A path that may hold rules is in one of these states:                   *)
(*   missing   nothing at the path                                         *)
(*   dir       a directory (exists, is no file, read_text raises)          *)
(*   garbled   a file yaml.safe_load raises on                             *)
(*   empty     a file that parses to None                                  *)
(*   list      a file that parses to a non-empty list                      *)
(*   mapping   a file that parses to a dict with top-level `keys`          *)
(* A top-level key is [name, type]; YAML keys are str or int.              *)
(***************************************************************************)
Key(name, type) == [name |-> name, type |-> type]

\* defaults.py: _KNOWN_KEYS
KNOWN_KEYS ==
    {Key(n, "str") : n \in {"canonical_scope", "excludes", "protected_from_archive",
                            "stale_path_patterns", "validator_inventory",
                            "link_validation", "archive_candidates",
                            "generator_drift"}}

\* keys the modelled rules files draw from: a known key, an unknown str key,
\* an unknown int key
UsedKeys ==
    {Key(n, "str") : n \in {"canonical_scope", "stale_path_patterns", "archive_candidates"}}

FileKeySets ==
    {UsedKeys,
     UsedKeys \cup {Key("owner", "str")},
     UsedKeys \cup {Key("owner", "str"), Key("1", "int")}}

PathStates ==
    {[status |-> s, keys |-> {}] : s \in {"missing", "dir", "garbled", "empty", "list"}}
    \cup {[status |-> "mapping", keys |-> ks] : ks \in FileKeySets}

\* a rule set (or whatever else a loader returns): `kind` is the Python type,
\* `origin` says where the value was made
RuleSet(kind, origin, keys, scope) ==
    [kind |-> kind, origin |-> origin, keys |-> keys, canonical_scope |-> scope]

\* the dict parsed from the rules file at `origin`
FileRules(origin, p) ==
    RuleSet("dict", origin, p.keys,
            IF Key("canonical_scope", "str") \in p.keys THEN <<"README.md">> ELSE <<>>)

\* the list parsed from the rules file at `origin`
FileList(origin) == RuleSet("list", origin, {}, <<>>)

\* the literal {}
EmptyDict == RuleSet("dict", "{}", {}, <<>>)

\* defaults.py: universal_rules()
universal_rules ==
    RuleSet("dict", "universal_rules",
            {Key(n, "str") : n \in {"canonical_scope", "excludes",
                                    "protected_from_archive", "stale_path_patterns"}},
            <<"README.md", "CLAUDE.md", "META.yaml", "CHANGELOG.md", "PROJECT_PRIMER.md">>)

\* repo_drift_detector.py: _default_rules()
default_rules ==
    RuleSet("dict", "_default_rules",
            {Key(n, "str") : n \in {"canonical_scope", "excludes",
                                    "protected_from_archive", "stale_path_patterns"}},
            <<"README.md", "CLAUDE.md", "META.yaml", "CHANGELOG.md",
              "10_docs/**/*.md", "protocols/**/*.md", "validators/README.md">>)

None == RuleSet("NoneType", "None", {}, <<>>)

\* defaults.py: _load_yaml(path, has_yaml, verbose): the dict, or None
load_yaml(origin, p, has_yaml) ==
    IF p.status = "missing" THEN None                      \* not path.exists()
    ELSE IF ~has_yaml THEN None
    ELSE IF p.status = "mapping" THEN FileRules(origin, p) \* isinstance(data, dict)
    ELSE None              \* not a dict, or read_text / safe_load raised

\* sorted(keys) raises TypeError when it has to compare a str with an int
sorted_raises(keys) == \E a \in keys, b \in keys : a.type # b.type

\* defaults.py: _warn_unknown_keys(rules, source, verbose): TRUE when it raises
warn_unknown_keys_raises(r, verbose) ==
    LET unknown == r.keys \ KNOWN_KEYS
    IN unknown # {} /\ verbose /\ sorted_raises(unknown)

Returned(v) == [outcome |-> "return", value |-> v]
Raised(exc) == [outcome |-> "raise", value |-> RuleSet("exception", exc, {}, <<>>)]

\* defaults.py: resolve_rules(cli_rules_path, repo_root, verbose)
\*   cli_given: cli_rules_path is not None; cli, repo: the states of the two paths
resolve_rules(cli_given, cli, repo, has_yaml, verbose) ==
    LET r1 == load_yaml("cli_rules_path", cli, has_yaml)
        r2 == load_yaml("repo_rules_path", repo, has_yaml)
    IN IF cli_given /\ r1 # None
       THEN IF warn_unknown_keys_raises(r1, verbose) THEN Raised("TypeError")
            ELSE Returned(r1)
       ELSE IF repo.status \notin {"missing", "dir"} /\ r2 # None   \* is_file()
       THEN IF warn_unknown_keys_raises(r2, verbose) THEN Raised("TypeError")
            ELSE Returned(r2)
       ELSE Returned(universal_rules)

\* repo_drift_detector.py: load_rules(rules_path); `origin` names the path
load_rules(origin, p, has_yaml) ==
    IF p.status = "missing" THEN EmptyDict                 \* not rules_path.exists()
    ELSE IF ~has_yaml THEN default_rules
    ELSE IF p.status = "mapping"
         THEN (IF p.keys = {} THEN EmptyDict ELSE FileRules(origin, p))
    ELSE IF p.status = "list" THEN FileList(origin)        \* safe_load(...) or {}
    ELSE IF p.status = "empty" THEN EmptyDict              \* None or {}
    ELSE default_rules                                     \* read or parse raised


(***************************************************************************)
(* The level checkers as main() sees them                                  *)
(*                                                                         *)
(* What a level finds is decided by the repository's content.  Here the    *)
(* content is given by the number of issues each sub-check meets; the      *)
(* sub-checks run in the order of run_level<k> and every finding takes its *)
(* id from the shared counter.                                             *)
(***************************************************************************)
Kind(category, severity, confidence, requires_review) ==
    [category |-> category, severity |-> severity, confidence |-> confidence,
     requires_review |-> requires_review]

\* level1.py: _check_canonical_scope
ConfigWarning == Kind("config_warning", "INFO", "high", FALSE)
\* level1.py: _check_validator_inventory
UnregisteredValidators == Kind("inventory_mismatch", "CRITICAL", "high", FALSE)
\* level1.py: _check_stale_paths, a rule of severity MINOR
StalePath == Kind("stale_path", "MINOR", "high", FALSE)
\* level2.py: _check_validator_consistency
DocContradiction == Kind("doc_contradiction", "MAJOR", "high", FALSE)
\* level2.py: _check_internal_links
BrokenLink == Kind("broken_link", "CRITICAL", "high", FALSE)
\* level3.py: _find_orphan_candidates, a file younger than min_age_days
YoungOrphan == Kind("orphan_candidate", "INFO", "low", TRUE)
\* level3.py: _find_misplaced_artifacts, a non-Python file in validators/
MisplacedArtifact == Kind("misplaced_artifact", "MINOR", "high", FALSE)

Min(a, b) == IF a < b THEN a ELSE b

\* n issues of one kind, met one after the other by a sub-check's loop
Issues(kind, n) == IF n = 0 THEN <<>> ELSE <<[kind |-> kind, n |-> n]>>

HasKey(r, name) == Key(name, "str") \in r.keys

\* rules.get("stale_path_patterns", []) is non-empty only for a rules file
HasStaleRules(r) ==
    r.origin \in {"cli_rules_path", "repo_rules_path"} /\ HasKey(r, "stale_path_patterns")

(***************************************************************************)
(* repo_drift_detector.py: main()                                          *)
(***************************************************************************)
NoSummary == [critical |-> -1, major |-> -1, minor |-> -1, info |-> -1, total |-> -1]

Formats == {"md", "json", "both"}

MainStartState(a, e) ==
    /\ pc = "start"
    /\ args = a
    /\ env = e
    /\ rules = None
    /\ counts = FindingCounter_init
    /\ findings = <<>>
    /\ todo = <<>>
    /\ ran = <<>>
    /\ written = {}
    /\ json_summary = NoSummary
    /\ exit_code = -1
    /\ rr = Idle
    /\ sv = Idle
    /\ l3 = Idle
    /\ CallsIdle

\* main(): repo_root.is_dir() check, then rules = load_rules(rules_path)
MainStart ==
    /\ pc = "start"
    /\ IF ~args.repo_is_dir
       THEN /\ pc' = "done"
            /\ exit_code' = 2
            /\ UNCHANGED rules
       ELSE /\ rules' = IF args.rules_given
                        THEN load_rules("cli_rules_path", env.cli, env.has_yaml)
                        ELSE load_rules("repo_rules_path", env.repo, env.has_yaml)
            /\ pc' = "level1"
            /\ UNCHANGED exit_code
    /\ UNCHANGED <<args, env, counts, findings, todo, ran, written, json_summary,
                   rr, sv, l3, callVars>>

\* run_level1(repo_root, rules, counter) is called.  rules.get(...) on a value
\* that is no dict raises AttributeError; main() catches nothing, so the
\* interpreter ends with status 1
RunLevel1 ==
    /\ pc = "level1"
    /\ ran' = Append(ran, 1)
    /\ IF rules.kind # "dict"
       THEN /\ pc' = "raised"
            /\ exit_code' = 1
            /\ UNCHANGED todo
       ELSE /\ \E cw \in 0..Min(MaxIssues, Len(rules.canonical_scope)), val \in 0..1 :
               \E st \in IF ~HasStaleRules(rules) THEN {0}
                         ELSE IF cw = 0 /\ val = 0 THEN (0..MaxIssues) \cup {LongRun}
                         ELSE 0..MaxIssues :
                 todo' = Issues(ConfigWarning, cw) \o Issues(UnregisteredValidators, val)
                         \o Issues(StalePath, st)
            /\ pc' = "in_level1"
            /\ UNCHANGED exit_code
    /\ UNCHANGED <<args, env, rules, counts, findings, written, json_summary, rr, sv, l3, callVars>>

\* if args.level >= 2: run_level2(repo_root, rules, counter) is called
RunLevel2 ==
    /\ pc = "level2"
    /\ ran' = Append(ran, 2)
    /\ \E dc \in 0..MaxIssues :
       \E bl \in 0..(IF rules.canonical_scope = <<>> THEN 0 ELSE MaxIssues) :
         todo' = Issues(DocContradiction, dc) \o Issues(BrokenLink, bl)
    /\ pc' = "in_level2"
    /\ UNCHANGED <<args, env, rules, counts, findings, written, json_summary,
                   exit_code, rr, sv, l3, callVars>>

\* if args.level >= 3: run_level3(repo_root, rules, counter) is called
RunLevel3 ==
    /\ pc = "level3"
    /\ ran' = Append(ran, 3)
    /\ \E oc \in 0..(IF HasKey(rules, "archive_candidates") THEN MaxIssues ELSE 0) :
       \E ma \in 0..MaxIssues :
         todo' = Issues(YoungOrphan, oc) \o Issues(MisplacedArtifact, ma)
    /\ pc' = "in_level3"
    /\ UNCHANGED <<args, env, rules, counts, findings, written, json_summary,
                   exit_code, rr, sv, l3, callVars>>

CurrentLevel == CHOOSE k \in 1..3 : pc = "in_level" \o ToString(k)

next_level_ignores_request(requested, k) == IF k < 3 THEN k + 1 ELSE 0

\* main(): `if args.level >= 2`, `if args.level >= 3`: the level that runs
\* after level k, 0 when none does
next_level(requested, k) == IF k < 3 /\ requested >= k + 1 THEN k + 1 ELSE 0

\* inside run_level<k>: findings.append(Finding(id=counter.next_id(k), ...))
AppendFinding ==
    /\ pc \in {"in_level1", "in_level2", "in_level3"}
    /\ todo # <<>>
    /\ LET k == CurrentLevel
           n == next_id(counts, k)
       IN /\ counts' = n.counts
          /\ findings' = Append(findings, Finding(n.id, k, Head(todo).kind))
    /\ todo' = IF Head(todo).n = 1 THEN Tail(todo)
               ELSE <<[Head(todo) EXCEPT !.n = @ - 1]>> \o Tail(todo)
    /\ UNCHANGED <<pc, args, env, rules, ran, written, json_summary, exit_code,
                   rr, sv, l3, callVars>>

\* run_level<k> returns and main() extends its list; the next `if args.level >=`
ReturnFromLevel ==
    /\ pc \in {"in_level1", "in_level2", "in_level3"}
    /\ todo = <<>>
    /\ pc' = IF next_level(args.level, CurrentLevel) = 0 THEN "report"
             ELSE "level" \o ToString(next_level(args.level, CurrentLevel))
    /\ UNCHANGED <<args, env, rules, counts, findings, todo, ran, written,
                   json_summary, exit_code, rr, sv, l3, callVars>>

\* report = DriftReport(..., findings=findings); write_markdown_report and
\* write_json_report as args.format asks
MainReport ==
    /\ pc = "report"
    /\ written' = (IF args.format \in {"md", "both"} THEN {"md"} ELSE {})
                  \cup (IF args.format \in {"json", "both"} THEN {"json"} ELSE {})
    /\ json_summary' = IF args.format \in {"json", "both"}
                       THEN json_round_trip_summary(findings) ELSE NoSummary
    /\ pc' = "exit"
    /\ UNCHANGED <<args, env, rules, counts, findings, todo, ran, exit_code, rr, sv, l3, callVars>>

\* main(): the value returned after the reports are written
main_exit_code(strict, fs) ==
    IF strict /\ counts_by_severity(fs)["CRITICAL"] > 0 THEN 1 ELSE 0

MainExit ==
    /\ pc = "exit"
    /\ exit_code' = main_exit_code(args.strict, findings)
    /\ pc' = "done"
    /\ UNCHANGED <<args, env, rules, counts, findings, todo, ran, written,
                   json_summary, rr, sv, l3, callVars>>

Args(dir, level, format, strict, rules_given) ==
    [repo_is_dir |-> dir, level |-> level, format |-> format, strict |-> strict,
     rules_given |-> rules_given]

Env(cli, repo, has_yaml) == [cli |-> cli, repo |-> repo, has_yaml |-> has_yaml]

Missing == [status |-> "missing", keys |-> {}]

\* runs without --rules, the repository holding a rules file, a rules file
\* that is a YAML list, or none
Init ==
    \E dir \in BOOLEAN, level \in 1..3, format \in Formats, strict \in BOOLEAN :
    \E repo \in {[status |-> "mapping", keys |-> UsedKeys],
                 [status |-> "list", keys |-> {}], Missing} :
        MainStartState(Args(dir, level, format, strict, FALSE), Env(Missing, repo, TRUE))

Next ==
    \/ MainStart
    \/ RunLevel1
    \/ RunLevel2
    \/ RunLevel3
    \/ AppendFinding
    \/ ReturnFromLevel
    \/ MainReport
    \/ MainExit

Spec == Init /\ [][Next]_vars


\* runs of main() over every state of the two rules paths, with and without
\* --rules and PyYAML
MainPathStates ==
    {[status |-> st, keys |-> {}] : st \in {"missing", "dir", "garbled", "empty", "list"}}
    \cup {[status |-> "mapping", keys |-> UsedKeys]}

InitRules ==
    \E level \in 1..3, given \in BOOLEAN, has_yaml \in BOOLEAN :
    \E cli \in IF given THEN MainPathStates ELSE {Missing}, repo \in MainPathStates :
        MainStartState(Args(TRUE, level, "both", FALSE, given), Env(cli, repo, has_yaml))

SpecRules == InitRules /\ [][Next]_vars

MainIdle ==
    /\ pc = "idle"
    /\ args = Idle
    /\ env = Idle
    /\ rules = None
    /\ counts = FindingCounter_init
    /\ findings = <<>>
    /\ todo = <<>>
    /\ ran = <<>>
    /\ written = {}
    /\ json_summary = NoSummary
    /\ exit_code = -1

mainVars == <<pc, args, env, rules, counts, findings, todo, ran, written,
              json_summary, exit_code>>

(***************************************************************************)
(* One call of resolve_rules(cli_rules_path, repo_root, verbose)           *)
(***************************************************************************)
InitResolve ==
    /\ MainIdle
    /\ sv = Idle
    /\ l3 = Idle
    /\ CallsIdle
    /\ \E given \in BOOLEAN, has_yaml \in BOOLEAN, verbose \in BOOLEAN :
       \E cli \in PathStates, repo \in PathStates :
         rr = [state |-> "call", cli_given |-> given, cli |-> cli, repo |-> repo,
               has_yaml |-> has_yaml, verbose |-> verbose, result |-> Returned(None)]

ResolveRules ==
    /\ rr.state = "call"
    /\ rr' = [rr EXCEPT !.state = "done",
                        !.result = resolve_rules(rr.cli_given, rr.cli, rr.repo,
                                                 rr.has_yaml, rr.verbose)]
    /\ UNCHANGED <<mainVars, sv, l3, callVars>>

SpecResolve == InitResolve /\ [][ResolveRules]_vars

(***************************************************************************)
(* sorted() over lists of Severity                                         *)
(***************************************************************************)
RECURSIVE insert_sorted(_, _)
\* put x into the sorted list after every element that is not greater
insert_sorted(x, xs) ==
    IF xs = <<>> THEN <<x>>
    ELSE IF Severity_lt(x, Head(xs)) THEN <<x>> \o xs
    ELSE <<Head(xs)>> \o insert_sorted(x, Tail(xs))

RECURSIVE sorted_from(_, _)
sorted_from(xs, acc) ==
    IF xs = <<>> THEN acc ELSE sorted_from(Tail(xs), insert_sorted(Head(xs), acc))

\* sorted(xs): a stable sort that compares with __lt__ only
sorted(xs) == sorted_from(xs, <<>>)

SeqsUpTo(S, n) == UNION {[1..k -> S] : k \in 0..n}

InitSeverity ==
    /\ MainIdle
    /\ rr = Idle
    /\ l3 = Idle
    /\ CallsIdle
    /\ \E xs \in SeqsUpTo(Severity, MaxSortLen) :
         sv = [state |-> "input", input |-> xs, once |-> <<>>, twice |-> <<>>]

SortOnce ==
    /\ sv.state = "input"
    /\ sv' = [sv EXCEPT !.state = "sorted", !.once = sorted(sv.input)]
    /\ UNCHANGED <<mainVars, rr, l3, callVars>>

SortAgain ==
    /\ sv.state = "sorted"
    /\ sv' = [sv EXCEPT !.state = "resorted", !.twice = sorted(sv.once)]
    /\ UNCHANGED <<mainVars, rr, l3, callVars>>

NextSeverity == SortOnce \/ SortAgain

SpecSeverity == InitSeverity /\ [][NextSeverity]_vars


(***************************************************************************)
(* Level 3.  Text, paths and patterns are sequences of one-character       *)
(* strings, so that matching, splitting and normalising are computed.      *)
(***************************************************************************)
Lower == {"a", "b", "c", "d", "e", "f", "g", "h", "i", "j", "k", "l", "m",
          "n", "o", "p", "q", "r", "s", "t", "u", "v", "w", "x", "y", "z"}
Upper == {"A", "B", "C", "D", "E", "F", "G", "H", "I", "J", "K", "L", "M",
          "N", "O", "P", "Q", "R", "S", "T", "U", "V", "W", "X", "Y", "Z"}
DigitChars == {"0", "1", "2", "3", "4", "5", "6", "7", "8", "9"}
\* [a-zA-Z]
Letters == Lower \cup Upper
\* [a-zA-Z0-9_-]
PathWord == Letters \cup DigitChars \cup {"_", "-"}
\* [a-zA-Z0-9_/./-]
PathChars == PathWord \cup {"/", "."}
Whitespace == {" ", "\t"}
\* the grave accent, which a string literal cannot hold
Backtick == "GRAVE"

\* s.startswith(prefix)
StartsWith(s, prefix) == Len(s) >= Len(prefix) /\ SubSeq(s, 1, Len(prefix)) = prefix

\* s.find(c, i - 1) + 1: the first position j >= i with s[j] = c, 0 if none
IndexFrom(s, c, i) ==
    IF \E j \in i..Len(s) : s[j] = c
    THEN CHOOSE j \in i..Len(s) : s[j] = c /\ \A k \in i..(j - 1) : s[k] # c
    ELSE 0

RECURSIVE split(_, _)
\* s.split(sep) for a one-character separator
split(s, sep) ==
    LET j == IndexFrom(s, sep, 1)
    IN IF j = 0 THEN <<s>>
       ELSE <<SubSeq(s, 1, j - 1)>> \o split(SubSeq(s, j + 1, Len(s)), sep)

RECURSIVE join(_, _)
\* sep.join(parts)
join(parts, sep) ==
    IF parts = <<>> THEN <<>>
    ELSE IF Len(parts) = 1 THEN parts[1]
    ELSE parts[1] \o <<sep>> \o join(Tail(parts), sep)

RECURSIVE lstrip(_, _)
\* s.lstrip(chars)
lstrip(s, chars) == IF s # <<>> /\ Head(s) \in chars THEN lstrip(Tail(s), chars) ELSE s

RECURSIVE rstrip(_, _)
rstrip(s, chars) ==
    IF s # <<>> /\ s[Len(s)] \in chars THEN rstrip(SubSeq(s, 1, Len(s) - 1), chars) ELSE s

\* s.strip()
strip(s) == rstrip(lstrip(s, Whitespace), Whitespace)

\* an empty dict
NoEntries == <<>>

\* dict.get(key, default) on a mapping modelled as a record or function
get(d, key, default) == IF key \in DOMAIN d THEN d[key] ELSE default

\* the elements of a list
Elements(xs) == {xs[i] : i \in 1..Len(xs)}

RECURSIVE fnmatch(_, _)
\* fnmatch.fnmatch(name, pat) on POSIX: '*' matches any run of characters,
\* '/' included, '?' any one character, anything else itself (the patterns
\* of the rules files use no '[...]' sets)
fnmatch(name, pat) ==
    IF pat = <<>> THEN name = <<>>
    ELSE IF Head(pat) = "*"
         THEN fnmatch(name, Tail(pat)) \/ (name # <<>> /\ fnmatch(Tail(name), pat))
    ELSE IF Head(pat) = "?"
         THEN name # <<>> /\ fnmatch(Tail(name), Tail(pat))
    ELSE name # <<>> /\ Head(name) = Head(pat) /\ fnmatch(Tail(name), Tail(pat))

\* PurePath parts of a relative path string: '' and '.' components dropped
path_parts(p) == SelectSeq(split(p, "/"), LAMBDA x : x # <<>> /\ x # <<".">>)

\* PurePath.suffix: the last component from its last '.', '' if that dot is
\* missing, first or last
suffix(p) ==
    LET parts == path_parts(p)
        name == IF parts = <<>> THEN <<>> ELSE parts[Len(parts)]
        dots == {k \in 1..Len(name) : name[k] = "."}
        last == IF dots = {} THEN 0 ELSE CHOOSE k \in dots : \A m \in dots : m <= k
    IN IF 1 < last /\ last < Len(name) THEN SubSeq(name, last, Len(name)) ELSE <<>>

\* PurePath.name
basename(p) == LET parts == path_parts(p) IN parts[Len(parts)]

\* str(path.parent.relative_to(repo_root)) as parts
parent_parts(p) == LET parts == path_parts(p) IN SubSeq(parts, 1, Len(parts) - 1)

\* the value of resolve() for a path that leaves the repository root
Outside == << <<".", ".">> >>

RECURSIVE resolve_from(_, _)
resolve_from(stack, parts) ==
    IF parts = <<>> THEN stack
    ELSE IF Head(parts) = <<".", ".">>
         THEN IF stack = <<>> THEN Outside
              ELSE resolve_from(SubSeq(stack, 1, Len(stack) - 1), Tail(parts))
    ELSE resolve_from(Append(stack, Head(parts)), Tail(parts))

\* Path.resolve() then relative_to(repo_root), on parts relative to the root
\* (the repository has no symlinks; a path that climbs above the root is
\* outside it, where relative_to raises ValueError)
resolve(parts) == resolve_from(<<>>, parts)

(***************************************************************************)
(* The repository under inspection                                         *)
(***************************************************************************)
README_md == <<"R", "E", "A", "D", "M", "E", ".", "m", "d">>
CLAUDE_md == <<"C", "L", "A", "U", "D", "E", ".", "m", "d">>
OLD_md == <<"O", "L", "D", ".", "m", "d">>
docs_guide_md == <<"d", "o", "c", "s", "/", "g", "u", "i", "d", "e", ".", "m", "d">>
docs_old_md == <<"d", "o", "c", "s", "/", "o", "l", "d", ".", "m", "d">>
validators_notes_txt == <<"v", "a", "l", "i", "d", "a", "t", "o", "r", "s", "/",
                          "n", "o", "t", "e", "s", ".", "t", "x", "t">>
app_yaml == <<"a", "p", "p", ".", "y", "a", "m", "l">>
dot_md == <<".", "m", "d">>

\* the markdown files of the repository, in directory order (CLAUDE.md is
\* named by the rules and does not exist)
MdFiles == <<README_md, OLD_md, docs_guide_md, docs_old_md>>

\* the files that are not markdown, when present
OtherFiles == <<validators_notes_txt, app_yaml>>

\* [text](target)
Link(target) == <<"[", "o", "]", "(">> \o target \o <<")">>
Fence == <<Backtick, Backtick, Backtick>>
http_OLD_md == <<"h", "t", "t", "p", ":", "/", "/", "h", "/">> \o OLD_md

\* what README.md may contain
ReadmeDocs ==
    { <<>>,
      << Link(OLD_md) >>,
      << Link(<<"/">> \o OLD_md) >>,
      << Link(docs_old_md) >>,
      << Link(<<"/">> \o docs_old_md) >>,
      << Link(OLD_md \o <<"#", "a">>) >>,
      << Link(<<"#", "a">>) >>,
      << Link(http_OLD_md) >>,
      << Link(<<".", ".", "/">> \o OLD_md) >>,
      << <<Backtick>> \o docs_old_md \o <<Backtick>> >>,
      << <<"s", "e", "e", " ">> \o docs_old_md \o <<" ", "n", "/", "a">> >>,
      << Fence, Link(OLD_md), Fence >>,
      << <<" ">> \o Fence, Link(docs_old_md), Fence, Link(OLD_md) >> }

\* what docs/guide.md may contain
GuideDocs ==
    { <<>>,
      << Link(<<"o", "l", "d", ".", "m", "d">>) >>,
      << Link(<<".", ".", "/">> \o OLD_md) >>,
      << Link(OLD_md) >> }

ScopeChoices ==
    { <<README_md, CLAUDE_md>>,
      <<README_md, <<"d", "o", "c", "s", "/", "*", ".", "m", "d">> >>,
      << <<"*", "*", "/", "*", ".", "m", "d">> >> }

ExcludesChoices == { <<>>, << <<"d", "o", "c", "s", "/", "*">> >> }

ProtectedChoices == { <<>>, <<README_md>>, << <<"d", "o", "c", "s", "/", "*">> >> }

AnyMarkdown == [path_pattern |-> <<"*", ".", "m", "d">>, description |-> "markdown"]
RootMarkdown == [path_pattern |-> <<"*", ".", "m", "d">>,
                 exclude |-> << <<"d", "o", "c", "s", "/", "*">> >>]
OldDocs == [path_pattern |-> <<"d", "o", "c", "s", "/", "o", "*">>,
            exclude |-> <<>>, description |-> "old docs"]

\* rules["archive_candidates"], or the key missing
ArchiveChoices ==
    { [candidate_classes |-> <<AnyMarkdown>>],
      [candidate_classes |-> <<AnyMarkdown>>, min_age_days |-> 100],
      [candidate_classes |-> <<RootMarkdown, OldDocs>>] }

L3Rules ==
    { [canonical_scope |-> s, excludes |-> e, protected_from_archive |-> p,
       archive_candidates |-> a] :
        s \in ScopeChoices, e \in ExcludesChoices, p \in ProtectedChoices,
        a \in ArchiveChoices }
    \cup
    { [canonical_scope |-> s, excludes |-> <<>>, protected_from_archive |-> <<README_md>>] :
        s \in ScopeChoices }

\* file_path.read_text().splitlines()
content_of(repo, rel_path) ==
    IF rel_path = README_md THEN repo.readme
    ELSE IF rel_path = docs_guide_md THEN repo.guide
    ELSE <<>>

\* every file of the repository, in directory order
repo_files(repo) ==
    MdFiles \o (IF repo.others THEN OtherFiles ELSE <<>>)
            \o (IF "validators" \in DOMAIN repo THEN repo.validators ELSE <<>>)

RECURSIVE glob_match(_, _)
\* pathlib's matching of pattern parts against path parts: '**' stands for
\* any number of directories, every other part is matched by fnmatch
glob_match(pat_parts, parts) ==
    IF pat_parts = <<>> THEN parts = <<>>
    ELSE IF Head(pat_parts) = <<"*", "*">>
         THEN glob_match(Tail(pat_parts), parts)
              \/ (Len(parts) > 1 /\ glob_match(pat_parts, Tail(parts)))
    ELSE /\ parts # <<>>
         /\ fnmatch(Head(parts), Head(pat_parts))
         /\ glob_match(Tail(pat_parts), Tail(parts))

\* repo_root.glob(pattern), keeping files (directories are dropped by the
\* is_file() filter of the callers)
glob(repo, pattern) ==
    SelectSeq(repo_files(repo),
              LAMBDA f : glob_match(path_parts(pattern), path_parts(f)))

\* repo_root.rglob("*.md")
rglob_md(repo) == glob(repo, <<"*", "*", "/", "*", ".", "m", "d">>)

(***************************************************************************)
(* extractors.py                                                           *)
(***************************************************************************)
NoMatch == [start |-> 0, end |-> 0, text |-> <<>>, in_backticks |-> FALSE]

\* re.match of \[([^\]]*)\]\(([^)]+)\) at position i of the line; text is
\* group 2
link_at(line, i) ==
    LET j == IndexFrom(line, "]", i + 1)
        k == IF j > 0 /\ j + 1 <= Len(line) /\ line[j + 1] = "("
             THEN IndexFrom(line, ")", j + 2) ELSE 0
    IN IF line[i] = "[" /\ k > j + 2
       THEN [start |-> i, end |-> k, text |-> SubSeq(line, j + 2, k - 1),
             in_backticks |-> FALSE]
       ELSE NoMatch

RECURSIVE finditer_links(_, _)
\* re.finditer(link_pattern, line) from position i on
finditer_links(line, i) ==
    IF i > Len(line) THEN <<>>
    ELSE LET m == link_at(line, i)
         IN IF m.start > 0 THEN <<m>> \o finditer_links(line, m.end + 1)
            ELSE finditer_links(line, i + 1)

external_prefixes ==
    { <<"h", "t", "t", "p", ":", "/", "/">>,
      <<"h", "t", "t", "p", "s", ":", "/", "/">>,
      <<"m", "a", "i", "l", "t", "o", ":">> }

\* the links of one line that extract_internal_links keeps
line_links(line, line_num, parent) ==
    LET keep(m) == /\ \A pre \in external_prefixes : ~StartsWith(m.text, pre)
                   /\ ~StartsWith(m.text, <<"#">>)
                   /\ split(m.text, "#")[1] # <<>>
        kept == SelectSeq(finditer_links(line, 1), keep)
        target_path(m) == split(m.text, "#")[1]
    IN [n \in 1..Len(kept) |->
          [target |-> target_path(kept[n]),
           line |-> line_num,
           column |-> kept[n].start - 1,
           resolved |-> IF StartsWith(target_path(kept[n]), <<"/">>)
                        THEN path_parts(lstrip(target_path(kept[n]), {"/"}))
                        ELSE parent \o path_parts(target_path(kept[n]))]]

is_fence_backticks_only(stripped) == StartsWith(stripped, <<Backtick, Backtick, Backtick>>)

\* stripped.startswith("```") or stripped.startswith("~~~")
is_fence(stripped) ==
    StartsWith(stripped, <<Backtick, Backtick, Backtick>>) \/ StartsWith(stripped, <<"~", "~", "~">>)

RECURSIVE links_from(_, _, _, _)
\* the loop over the lines, with the code-block state
links_from(lines, line_num, in_code_block, parent) ==
    IF line_num > Len(lines) THEN <<>>
    ELSE LET stripped == strip(lines[line_num])
         IN IF is_fence(stripped)
            THEN links_from(lines, line_num + 1, ~in_code_block, parent)
            ELSE IF in_code_block
            THEN links_from(lines, line_num + 1, in_code_block, parent)
            ELSE line_links(lines[line_num], line_num, parent)
                 \o links_from(lines, line_num + 1, in_code_block, parent)

\* extract_internal_links(file_path, repo_root) for an existing, readable file
extract_internal_links(repo, rel_path) ==
    links_from(content_of(repo, rel_path), 1, FALSE, parent_parts(rel_path))

\* the last position of the run of characters of `class` that starts at i,
\* i - 1 if there is none
run_end(line, i, class) ==
    IF i > Len(line) \/ line[i] \notin class THEN i - 1
    ELSE CHOOSE e \in i..Len(line) :
           /\ \A k \in i..e : line[k] \in class
           /\ (e = Len(line) \/ line[e + 1] \notin class)

\* the first alternative of path_pattern at position i: `([^`]+/[^`]+)`
backticked_at(line, i) ==
    LET j == IndexFrom(line, Backtick, i + 1)
        body == SubSeq(line, i + 1, j - 1)
    IN IF line[i] = Backtick /\ j > 0 /\ \E k \in 2..(Len(body) - 1) : body[k] = "/"
       THEN [start |-> i, end |-> j, text |-> body, in_backticks |-> TRUE]
       ELSE NoMatch

\* the second alternative: (?<![a-zA-Z])([a-zA-Z0-9_-]+/[a-zA-Z0-9_/./-]+)
bare_path_at(line, i) ==
    LET e1 == run_end(line, i, PathWord)
        e2 == run_end(line, e1 + 2, PathChars)
    IN IF /\ (i = 1 \/ line[i - 1] \notin Letters)
          /\ e1 >= i
          /\ e1 + 1 <= Len(line)
          /\ line[e1 + 1] = "/"
          /\ e2 >= e1 + 2
       THEN [start |-> i, end |-> e2, text |-> SubSeq(line, i, e2), in_backticks |-> FALSE]
       ELSE NoMatch

RECURSIVE finditer_paths(_, _)
\* re.finditer(path_pattern, line) from position i on
finditer_paths(line, i) ==
    IF i > Len(line) THEN <<>>
    ELSE LET m == IF backticked_at(line, i).start > 0 THEN backticked_at(line, i)
                  ELSE bare_path_at(line, i)
         IN IF m.start > 0 THEN <<m>> \o finditer_paths(line, m.end + 1)
            ELSE finditer_paths(line, i + 1)

false_positives == { <<"a", "n", "d", "/", "o", "r">>, <<"w", "/">>, <<"n", "/", "a">> }

RECURSIVE refs_from(_, _)
refs_from(lines, line_num) ==
    IF line_num > Len(lines) THEN <<>>
    ELSE LET keep(m) == /\ ~StartsWith(m.text, <<"h", "t", "t", "p", ":", "/", "/">>)
                        /\ ~StartsWith(m.text, <<"h", "t", "t", "p", "s", ":", "/", "/">>)
                        /\ m.text \notin false_positives
             kept == SelectSeq(finditer_paths(lines[line_num], 1), keep)
         IN [n \in 1..Len(kept) |->
               [path |-> kept[n].text, line |-> line_num,
                in_backticks |-> kept[n].in_backticks]]
            \o refs_from(lines, line_num + 1)

\* extract_path_references(file_path, repo_root) for an existing, readable file
extract_path_references(repo, rel_path) == refs_from(content_of(repo, rel_path), 1)

(***************************************************************************)
(* level3.py                                                               *)
(***************************************************************************)
\* the default of archive_rules.get("min_age_days", 90)
DefaultMinAgeDays == 90

\* what get_file_age_days may return for a file
AgeDays == {DefaultMinAgeDays - 1, DefaultMinAgeDays}

\* is_excluded / is_protected: some pattern of the list matches the path
matches_any(rel_path, patterns) ==
    \E n \in 1..Len(patterns) : fnmatch(rel_path, patterns[n])

is_excluded(rel_path, excludes) == matches_any(rel_path, excludes)

is_protected_never(rel_path, protected) == FALSE

is_protected(rel_path, protected) == matches_any(rel_path, protected)

RECURSIVE scope_files(_, _)
\* the loop over canonical_scope that fills files_to_scan
scope_files(repo, scope) ==
    IF scope = <<>> THEN <<>>
    ELSE LET pattern == Head(scope)
             found == IF "*" \in Elements(pattern) THEN glob(repo, pattern)
                      ELSE IF pattern \in Elements(repo_files(repo)) /\ suffix(pattern) = dot_md
                      THEN <<pattern>>
                      ELSE <<>>
         IN found \o scope_files(repo, Tail(scope))

\* files_to_scan of _build_reference_graph after the excludes filter
files_to_scan(repo, r) ==
    SelectSeq(scope_files(repo, get(r, "canonical_scope", <<>>)),
              LAMBDA f : ~is_excluded(f, get(r, "excludes", <<>>)))

EmptyGraph == [forward |-> <<>>, reverse |-> <<>>]

\* d.setdefault(key, set()).add(value)
setdefault_add(d, key, value) ==
    [x \in DOMAIN d \cup {key} |->
        IF x = key THEN (IF key \in DOMAIN d THEN d[key] ELSE {}) \cup {value}
        ELSE d[x]]

add_edge_forward_only(g, rel_path, target) ==
    [forward |-> [g.forward EXCEPT ![rel_path] = @ \cup {target}],
     reverse |-> g.reverse]

\* forward_graph[rel_path].add(target); reverse_graph[target].add(rel_path)
add_edge(g, rel_path, target) ==
    [forward |-> [g.forward EXCEPT ![rel_path] = @ \cup {target}],
     reverse |-> setdefault_add(g.reverse, target, rel_path)]

\* the normalisation of a link target: a relative target is resolved
\* against the file's directory and skipped when it leaves the root; a
\* target with a leading '/' is kept as written
normalize_target(target, parent) ==
    IF ~StartsWith(target, <<"/">>)
    THEN LET resolved == resolve(parent \o path_parts(target))
         IN IF resolved = Outside THEN [skip |-> TRUE, target |-> <<>>]
            ELSE IF resolved = <<>> THEN [skip |-> FALSE, target |-> <<".">>]
            ELSE [skip |-> FALSE, target |-> join(resolved, "/")]
    ELSE [skip |-> FALSE, target |-> target]

RECURSIVE add_links(_, _, _, _)
add_links(g, rel_path, parent, links) ==
    IF links = <<>> THEN g
    ELSE LET normalized == normalize_target(Head(links).target, parent)
         IN IF normalized.skip THEN add_links(g, rel_path, parent, Tail(links))
            ELSE add_links(add_edge(g, rel_path, normalized.target),
                           rel_path, parent, Tail(links))

RECURSIVE add_refs(_, _, _)
add_refs(g, rel_path, refs) ==
    IF refs = <<>> THEN g
    ELSE add_refs(add_edge(g, rel_path, Head(refs).path), rel_path, Tail(refs))

\* one iteration of `for file_path in files_to_scan`
scan_file(g, repo, rel_path) ==
    LET g0 == [forward |-> [x \in DOMAIN g.forward \cup {rel_path} |->
                              IF x = rel_path THEN {} ELSE g.forward[x]],
               reverse |-> g.reverse]
        g1 == add_links(g0, rel_path, parent_parts(rel_path),
                        extract_internal_links(repo, rel_path))
    IN add_refs(g1, rel_path, extract_path_references(repo, rel_path))

RECURSIVE matches_candidate_class(_, _)
\* matches_candidate_class: the first class whose pattern matches and none
\* of whose excludes match, as (True, description), else (False, "")
matches_candidate_class(rel_path, candidate_classes) ==
    IF candidate_classes = <<>> THEN [matches |-> FALSE, description |-> ""]
    ELSE LET cc == Head(candidate_classes)
         IN IF /\ fnmatch(rel_path, get(cc, "path_pattern", <<>>))
               /\ ~matches_any(rel_path, get(cc, "exclude", <<>>))
            THEN [matches |-> TRUE,
                  description |-> get(cc, "description", "Matched candidate class")]
            ELSE matches_candidate_class(rel_path, Tail(candidate_classes))

age_threshold_met_strict(age_days, min_age_days) == age_days > min_age_days

\* age_threshold_met = age_days >= min_age_days
age_threshold_met(age_days, min_age_days) == age_days >= min_age_days

\* the Finding of _find_orphan_candidates
OrphanCandidate(id, rel_path, description, age_days, min_age_days, inbound_refs) ==
    [id |-> id, level_detected |-> 3, severity |-> "INFO",
     category |-> "orphan_candidate", file |-> rel_path,
     confidence |-> IF age_threshold_met(age_days, min_age_days) THEN "high" ELSE "low",
     requires_review |-> ~age_threshold_met(age_days, min_age_days),
     context |-> [candidate_class |-> description, age_days |-> age_days,
                  age_threshold |-> min_age_days, inbound_refs |-> inbound_refs]]

MisplacedFinding_unreviewed(id, rel_path, severity, confidence, requires_review) ==
    [id |-> id, level_detected |-> 3, severity |-> severity,
     category |-> "misplaced_artifact", file |-> rel_path,
     confidence |-> confidence, requires_review |-> FALSE,
     context |-> NoEntries]

\* the two Findings of _find_misplaced_artifacts
MisplacedFinding(id, rel_path, severity, confidence, requires_review) ==
    [id |-> id, level_detected |-> 3, severity |-> severity,
     category |-> "misplaced_artifact", file |-> rel_path,
     confidence |-> confidence, requires_review |-> requires_review,
     context |-> NoEntries]

allowed_non_py_none == {}

allowed_non_py == { <<"R", "E", "A", "D", "M", "E", ".", "m", "d">>,
                    <<"_", "_", "i", "n", "i", "t", "_", "_", ".", "p", "y">>,
                    <<"_", "_", "p", "y", "c", "a", "c", "h", "e", "_", "_">> }

config_extensions == { <<".", "j", "s", "o", "n">>, <<".", "y", "a", "m", "l">>,
                       <<".", "y", "m", "l">>, <<".", "t", "o", "m", "l">>,
                       <<".", "i", "n", "i">> }

allowed_root_configs ==
    { <<"p", "y", "p", "r", "o", "j", "e", "c", "t", ".", "t", "o", "m", "l">>,
      <<"p", "a", "c", "k", "a", "g", "e", ".", "j", "s", "o", "n">>,
      <<"M", "E", "T", "A", ".", "y", "a", "m", "l">>,
      <<"R", "E", "L", "A", "T", "I", "O", "N", "S", ".", "y", "a", "m", "l">>,
      <<"g", "l", "o", "s", "s", "a", "r", "y", ".", "y", "a", "m", "l">> }

\* the files _find_misplaced_artifacts reports: non-Python files directly in
\* validators/, then configuration files at the root
misplaced_files(repo, protected) ==
    LET in_validators(f) ==
            /\ Len(path_parts(f)) = 2
            /\ path_parts(f)[1] = <<"v", "a", "l", "i", "d", "a", "t", "o", "r", "s">>
            /\ suffix(f) # <<".", "p", "y">>
            /\ basename(f) \notin allowed_non_py
            /\ ~is_protected(f, protected)
        root_config(f) ==
            /\ Len(path_parts(f)) = 1
            /\ suffix(f) \in config_extensions
            /\ basename(f) \notin allowed_root_configs
            /\ ~is_protected(f, protected)
    IN [validators |-> SelectSeq(repo_files(repo), in_validators),
        root |-> SelectSeq(repo_files(repo), root_config)]

RECURSIVE misplaced_findings(_, _, _, _)
\* appends one Finding per file, numbering with the counter
misplaced_findings(c, fs, files, minor) ==
    IF files = <<>> THEN [counts |-> c, findings |-> fs]
    ELSE LET nid == next_id(c, 3)
         IN misplaced_findings(
                nid.counts,
                Append(fs, IF minor
                           THEN MisplacedFinding(nid.id, Head(files), "MINOR", "high", FALSE)
                           ELSE MisplacedFinding(nid.id, Head(files), "INFO", "low", TRUE)),
                Tail(files), minor)

(***************************************************************************)
(* One call of run_level3(repo_root, rules, counter)                       *)
(***************************************************************************)
InitL3 ==
    /\ MainIdle
    /\ rr = Idle
    /\ sv = Idle
    /\ CallsIdle
    /\ \E r \in L3Rules, readme \in ReadmeDocs, guide \in GuideDocs, others \in BOOLEAN :
         l3 = [state |-> "call",
               repo |-> [readme |-> readme, guide |-> guide, others |-> others],
               rules |-> r,
               files_to_scan |-> <<>>,
               graph |-> EmptyGraph,
               all_md_files |-> <<>>,
               age_days |-> [f \in Elements(MdFiles) |-> -1],
               counter |-> FindingCounter_init,
               findings |-> <<>>]

\* _build_reference_graph up to the loop over files_to_scan
BuildFilesToScan ==
    /\ l3.state = "call"
    /\ l3' = [l3 EXCEPT !.state = "scan",
                        !.files_to_scan = files_to_scan(l3.repo, l3.rules)]
    /\ UNCHANGED <<mainVars, rr, sv, callVars>>

\* one iteration of the loop over files_to_scan
ScanFile ==
    /\ l3.state = "scan"
    /\ l3.files_to_scan # <<>>
    /\ l3' = [l3 EXCEPT !.files_to_scan = Tail(@),
                        !.graph = scan_file(@, l3.repo, Head(l3.files_to_scan))]
    /\ UNCHANGED <<mainVars, rr, sv, callVars>>

\* _build_reference_graph returns; _find_orphan_candidates lists the
\* markdown files
StartOrphanScan ==
    /\ l3.state = "scan"
    /\ l3.files_to_scan = <<>>
    /\ l3' = [l3 EXCEPT !.state = "orphans", !.all_md_files = rglob_md(l3.repo)]
    /\ UNCHANGED <<mainVars, rr, sv, callVars>>

\* one iteration of `for file_path in all_md_files`
CheckOrphanCandidate ==
    /\ l3.state = "orphans"
    /\ l3.all_md_files # <<>>
    /\ LET rel_path == Head(l3.all_md_files)
           protected == get(l3.rules, "protected_from_archive", <<>>)
           archive_rules == get(l3.rules, "archive_candidates", NoEntries)
           candidate_classes == get(archive_rules, "candidate_classes", <<>>)
           min_age_days == get(archive_rules, "min_age_days", DefaultMinAgeDays)
           inbound_refs == get(l3.graph.reverse, rel_path, {})
           class == matches_candidate_class(rel_path, candidate_classes)
       IN IF is_protected(rel_path, protected) \/ inbound_refs # {} \/ ~class.matches
          THEN l3' = [l3 EXCEPT !.all_md_files = Tail(@)]
          ELSE \E age \in AgeDays :
                 LET nid == next_id(l3.counter, 3)
                 IN l3' = [l3 EXCEPT
                             !.all_md_files = Tail(@),
                             !.age_days[rel_path] = age,
                             !.counter = nid.counts,
                             !.findings = Append(@, OrphanCandidate(
                                 nid.id, rel_path, class.description, age,
                                 min_age_days, inbound_refs))]
    /\ UNCHANGED <<mainVars, rr, sv, callVars>>

\* _find_misplaced_artifacts, and run_level3 returns
FindMisplacedArtifacts ==
    /\ l3.state = "orphans"
    /\ l3.all_md_files = <<>>
    /\ LET files == misplaced_files(l3.repo, get(l3.rules, "protected_from_archive", <<>>))
           a == misplaced_findings(l3.counter, l3.findings, files.validators, TRUE)
           b == misplaced_findings(a.counts, a.findings, files.root, FALSE)
       IN l3' = [l3 EXCEPT !.state = "done", !.counter = b.counts,
                           !.findings = b.findings]
    /\ UNCHANGED <<mainVars, rr, sv, callVars>>

NextL3 ==
    \/ BuildFilesToScan
    \/ ScanFile
    \/ StartOrphanScan
    \/ CheckOrphanCandidate
    \/ FindMisplacedArtifacts

SpecL3 == InitL3 /\ [][NextL3]_vars


(***************************************************************************)
(* level2.py: _check_internal_links, called on its own                     *)
(***************************************************************************)
\* the directories of the repository
repo_dirs(repo) ==
    << <<"d", "o", "c", "s">> >>
    \o (IF repo.others THEN << <<"v", "a", "l", "i", "d", "a", "t", "o", "r", "s">> >> ELSE <<>>)

\* link["is_valid"] = resolved.exists(): the resolved path is the root, a
\* directory or a file of the repository (nothing of that name exists
\* outside the root)
is_valid(repo, link) ==
    LET resolved == resolve(link.resolved)
    IN \/ resolved = <<>>
       \/ join(resolved, "/") \in Elements(repo_files(repo)) \cup Elements(repo_dirs(repo))

\* the Finding of _check_internal_links; Finding has no column field
BrokenLinkFinding(id, rel_path, link) ==
    [id |-> id, level_detected |-> 2, severity |-> "CRITICAL",
     category |-> "broken_link", file |-> rel_path, line |-> link.line,
     confidence |-> "high", requires_review |-> FALSE, context |-> NoEntries,
     message |-> link.target]

RECURSIVE broken_links(_, _, _, _, _)
\* the loop `for link in links` of one file
broken_links(c, fs, repo, rel_path, links) ==
    IF links = <<>> THEN [counts |-> c, findings |-> fs]
    ELSE IF is_valid(repo, Head(links))
    THEN broken_links(c, fs, repo, rel_path, Tail(links))
    ELSE LET nid == next_id(c, 2)
         IN broken_links(nid.counts,
                         Append(fs, BrokenLinkFinding(nid.id, rel_path, Head(links))),
                         repo, rel_path, Tail(links))

\* canonical_scope choices, one of which names README.md exactly and by a glob
LinkScopeChoices == ScopeChoices \cup { <<README_md, <<"*", ".", "m", "d">> >> }

InitLinks ==
    /\ MainIdle
    /\ rr = Idle
    /\ sv = Idle
    /\ l3 = Idle
    /\ l1 = Idle
    /\ rp = Idle
    /\ xt = Idle
    /\ \E s \in LinkScopeChoices, e \in ExcludesChoices,
          readme \in ReadmeDocs, guide \in GuideDocs, others \in BOOLEAN :
         l2 = [state |-> "call", op |-> "_check_internal_links",
               repo |-> [readme |-> readme, guide |-> guide, others |-> others],
               rules |-> [canonical_scope |-> s, excludes |-> e],
               files_to_scan |-> <<>>,
               counter |-> FindingCounter_init,
               findings |-> <<>>]

\* _check_internal_links up to the loop over files_to_scan
LinksFilesToScan ==
    /\ l2.state = "call"
    /\ l2.op = "_check_internal_links"
    /\ l2' = [l2 EXCEPT !.state = "scan",
                        !.files_to_scan = files_to_scan(l2.repo, l2.rules)]
    /\ UNCHANGED <<mainVars, rr, sv, l3, l1, rp, xt>>

\* one iteration of `for file_path in files_to_scan`
CheckFileLinks ==
    /\ l2.state = "scan"
    /\ l2.op = "_check_internal_links"
    /\ l2.files_to_scan # <<>>
    /\ LET rel_path == Head(l2.files_to_scan)
           out == broken_links(l2.counter, l2.findings, l2.repo, rel_path,
                               extract_internal_links(l2.repo, rel_path))
       IN l2' = [l2 EXCEPT !.files_to_scan = Tail(@), !.counter = out.counts,
                           !.findings = out.findings]
    /\ UNCHANGED <<mainVars, rr, sv, l3, l1, rp, xt>>

\* _check_internal_links returns
ReturnLinks ==
    /\ l2.state = "scan"
    /\ l2.op = "_check_internal_links"
    /\ l2.files_to_scan = <<>>
    /\ l2' = [l2 EXCEPT !.state = "done"]
    /\ UNCHANGED <<mainVars, rr, sv, l3, l1, rp, xt>>

NextLinks == LinksFilesToScan \/ CheckFileLinks \/ ReturnLinks

SpecLinks == InitLinks /\ [][NextLinks]_vars


(***************************************************************************)
(* level2.py: _check_validator_consistency, called on its own.  Validator  *)
(* names are numbers: 1..n are registered, 0 is a name nobody registered.  *)
(***************************************************************************)
\* the largest ground truth considered
MaxValidators == 15

\* the documents whose inventories are compared, in the order of insertion
\* into `inventories`
InventoryDocs ==
    <<"README.md", "CLAUDE.md", "validators/README.md",
      "10_docs/STANDARDS_GUIDE.md", "PROJECT_PRIMER.md">>

omission_severity_ratio_only(doc, missing_count, ground_truth_count) ==
    IF 5 * missing_count > ground_truth_count THEN "MAJOR" ELSE "INFO"

\* the severity of an omission: len(missing) / len(ground_truth) > 0.2 gives
\* MAJOR, else INFO (m / g and 0.2 round to the same double when 5m = g, so
\* the comparison is 5m > g); PROJECT_PRIMER.md with 3 or more missing is
\* MAJOR
omission_severity(doc, missing_count, ground_truth_count) ==
    IF doc = "PROJECT_PRIMER.md" /\ missing_count >= 3 THEN "MAJOR"
    ELSE IF 5 * missing_count > ground_truth_count THEN "MAJOR"
    ELSE "INFO"

\* the Findings of _check_validator_consistency
NoGroundTruthFinding(id) ==
    [id |-> id, level_detected |-> 2, severity |-> "CRITICAL",
     category |-> "inventory_mismatch", file |-> "validators/__init__.py",
     confidence |-> "high", requires_review |-> FALSE, context |-> NoEntries]

OmissionFinding(id, doc, missing, claimed, ground_truth) ==
    [id |-> id, level_detected |-> 2,
     severity |-> omission_severity(doc, Cardinality(missing), Cardinality(ground_truth)),
     category |-> "doc_contradiction", file |-> doc,
     confidence |-> "high", requires_review |-> FALSE,
     context |-> [ground_truth_count |-> Cardinality(ground_truth),
                  claimed_count |-> Cardinality(claimed),
                  missing |-> missing]]

ExtraFinding(id, doc, extra) ==
    [id |-> id, level_detected |-> 2, severity |-> "MAJOR",
     category |-> "doc_contradiction", file |-> doc,
     confidence |-> "high", requires_review |-> FALSE,
     context |-> [extra |-> extra]]

\* what a document may claim against ground truth 1..n: everything, all but
\* the first one or the first three names, each with or without the
\* unregistered name, or nothing
ClaimChoices(n) ==
    { (k + 1)..n \cup x : k \in {0, 1, 3}, x \in {{}, {0}} } \cup {{}}

\* the inventories the extractors may return for the documents that exist
InventoryChoices(n) ==
    { inv \in UNION { [ds -> ClaimChoices(n)] : ds \in SUBSET {"README.md", "PROJECT_PRIMER.md"} } : TRUE }
    \cup
    { [d \in {"CLAUDE.md", "validators/README.md", "10_docs/STANDARDS_GUIDE.md"} |->
          IF d = "CLAUDE.md" THEN 1..n ELSE c] : c \in ClaimChoices(n) }

InitValidators ==
    /\ MainIdle
    /\ rr = Idle
    /\ sv = Idle
    /\ l3 = Idle
    /\ l1 = Idle
    /\ rp = Idle
    /\ xt = Idle
    /\ \E n \in 0..MaxValidators :
       \E inv \in InventoryChoices(n) :
         l2 = [state |-> "call", op |-> "_check_validator_consistency",
               ground_truth |-> 1..n,
               on_disk |-> inv,
               docs |-> <<>>,
               counter |-> FindingCounter_init,
               findings |-> <<>>]

\* get_available_validators found nothing: one CRITICAL finding, return
NoGroundTruth ==
    /\ l2.state = "call"
    /\ l2.op = "_check_validator_consistency"
    /\ l2.ground_truth = {}
    /\ LET nid == next_id(l2.counter, 2)
       IN l2' = [l2 EXCEPT !.state = "done", !.counter = nid.counts,
                           !.findings = Append(@, NoGroundTruthFinding(nid.id))]
    /\ UNCHANGED <<mainVars, rr, sv, l3, l1, rp, xt>>

\* the inventories of the documents that exist are extracted
ExtractInventories ==
    /\ l2.state = "call"
    /\ l2.op = "_check_validator_consistency"
    /\ l2.ground_truth # {}
    /\ l2' = [l2 EXCEPT !.state = "compare",
                        !.docs = SelectSeq(InventoryDocs, LAMBDA d : d \in DOMAIN l2.on_disk)]
    /\ UNCHANGED <<mainVars, rr, sv, l3, l1, rp, xt>>

\* one iteration of `for doc, claimed in inventories.items()`
CompareDoc ==
    /\ l2.state = "compare"
    /\ l2.op = "_check_validator_consistency"
    /\ l2.docs # <<>>
    /\ LET doc == Head(l2.docs)
           claimed == l2.on_disk[doc]
           missing == l2.ground_truth \ claimed
           extra == claimed \ l2.ground_truth
           report_missing == missing # {} /\ Cardinality(claimed) > 0
           id1 == next_id(l2.counter, 2)
           c1 == IF report_missing THEN id1.counts ELSE l2.counter
           fs1 == IF report_missing
                  THEN Append(l2.findings,
                              OmissionFinding(id1.id, doc, missing, claimed, l2.ground_truth))
                  ELSE l2.findings
           id2 == next_id(c1, 2)
       IN l2' = [l2 EXCEPT
                   !.docs = Tail(@),
                   !.counter = IF extra # {} THEN id2.counts ELSE c1,
                   !.findings = IF extra # {} THEN Append(fs1, ExtraFinding(id2.id, doc, extra))
                                ELSE fs1]
    /\ UNCHANGED <<mainVars, rr, sv, l3, l1, rp, xt>>

\* _check_validator_consistency returns
ReturnValidators ==
    /\ l2.state = "compare"
    /\ l2.op = "_check_validator_consistency"
    /\ l2.docs = <<>>
    /\ l2' = [l2 EXCEPT !.state = "done"]
    /\ UNCHANGED <<mainVars, rr, sv, l3, l1, rp, xt>>

NextValidators == NoGroundTruth \/ ExtractInventories \/ CompareDoc \/ ReturnValidators

SpecValidators == InitValidators /\ [][NextValidators]_vars


(***************************************************************************)
(* level2.py: _check_generator_drift, called on its own                    *)
(***************************************************************************)
\* the largest commit distance and the largest configured lag considered
MaxLag == 3

\* the value of primer_sha / current_sha when the hash is not known
NoSha == "None"

\* the hashes a primer may record and `git rev-parse --short HEAD` may print
Shas == {"abc123", "def4567"}

\* _get_commit_lag: the count printed by `git rev-list --count old..new`, or
\* None when git fails, times out or prints no number
NoLag == [known |-> FALSE, commits |-> 0]
Lag(n) == [known |-> TRUE, commits |-> n]

within_allowed_lag_strict(sha_lag, allowed_lag) ==
    sha_lag.known /\ sha_lag.commits < allowed_lag

\* sha_lag is not None and sha_lag <= allowed_lag
within_allowed_lag(sha_lag, allowed_lag) ==
    sha_lag.known /\ sha_lag.commits <= allowed_lag

\* the two staleness Findings and the directory-map Finding
StalenessFinding(id, severity, primer_sha, current_sha, extra) ==
    [id |-> id, level_detected |-> 2, severity |-> severity,
     category |-> "generator_drift", file |-> "PROJECT_PRIMER.md",
     confidence |-> "high", requires_review |-> FALSE,
     context |-> [primer_sha |-> primer_sha, current_sha |-> current_sha] @@ extra]

DirectoryMapFinding(id, missing_count) ==
    [id |-> id, level_detected |-> 2, severity |-> "MAJOR",
     category |-> "generator_drift", file |-> "PROJECT_PRIMER.md",
     confidence |-> "high", requires_review |-> FALSE,
     context |-> [missing |-> missing_count]]

\* rules.get("generator_drift", {}).get("PROJECT_PRIMER.md", {}): with or
\* without allowed_sha_lag_commits
GeneratorRules ==
    {NoEntries} \cup { [allowed_sha_lag_commits |-> n] : n \in 0..MaxLag }

\* the registered names and the names found in the primer; 0 is a name
\* nobody registered
GroundTruths == { {}, {1}, {1, 2}, {1, 2, 3} }

PrimerValidators == { {}, {1}, {0, 2}, {1, 2, 3} }

omits_enough_any(missing_in_primer) == missing_in_primer # {}

\* if missing_in_primer and len(missing_in_primer) >= 2
omits_enough(missing_in_primer) ==
    missing_in_primer # {} /\ Cardinality(missing_in_primer) >= 2

\* the profile argument: None, or a RepoProfile
Profiles == { [given |-> FALSE, has_validators |-> FALSE],
              [given |-> TRUE, has_validators |-> FALSE],
              [given |-> TRUE, has_validators |-> TRUE] }

InitGenerator ==
    /\ MainIdle
    /\ rr = Idle
    /\ sv = Idle
    /\ l3 = Idle
    /\ l1 = Idle
    /\ rp = Idle
    /\ xt = Idle
    /\ \E exists \in BOOLEAN, recorded \in Shas \cup {NoSha}, head \in Shas \cup {NoSha},
          lag \in {NoLag} \cup {Lag(n) : n \in 0..MaxLag},
          gr \in GeneratorRules, profile \in Profiles,
          ground_truth \in GroundTruths, primer_validators \in PrimerValidators :
         l2 = [state |-> "call", op |-> "_check_generator_drift",
               primer_exists |-> exists,
               recorded |-> recorded,          \* the hash in the primer's text
               head |-> head,                  \* what git rev-parse gives
               lag |-> lag,                    \* what git rev-list gives
               generator_rules |-> gr,
               profile |-> profile,
               ground_truth |-> ground_truth,            \* get_available_validators
               primer_validators |-> primer_validators,  \* extract_validator_list_from_primer
               primer_sha |-> NoSha,
               current_sha |-> NoSha,
               counter |-> FindingCounter_init,
               findings |-> <<>>]

\* no PROJECT_PRIMER.md: return no findings
NoPrimer ==
    /\ l2.state = "call"
    /\ l2.op = "_check_generator_drift"
    /\ ~l2.primer_exists
    /\ l2' = [l2 EXCEPT !.state = "done"]
    /\ UNCHANGED <<mainVars, rr, sv, l3, l1, rp, xt>>

\* read the primer, search the recorded hash, ask git for HEAD
ReadHashes ==
    /\ l2.state = "call"
    /\ l2.op = "_check_generator_drift"
    /\ l2.primer_exists
    /\ l2' = [l2 EXCEPT !.state = "staleness", !.primer_sha = l2.recorded,
                        !.current_sha = l2.head]
    /\ UNCHANGED <<mainVars, rr, sv, l3, l1, rp, xt>>

\* the two `if primer_sha and current_sha and primer_sha != current_sha`
\* blocks: the first may append the INFO finding and clear primer_sha, the
\* second appends the MAJOR finding
CheckStaleness ==
    /\ l2.state = "staleness"
    /\ l2.op = "_check_generator_drift"
    /\ LET allowed_lag == get(l2.generator_rules, "allowed_sha_lag_commits", 0)
           differ(p) == p # NoSha /\ l2.current_sha # NoSha /\ p # l2.current_sha
           tolerated == differ(l2.primer_sha) /\ within_allowed_lag(l2.lag, allowed_lag)
           id1 == next_id(l2.counter, 2)
           c1 == IF tolerated THEN id1.counts ELSE l2.counter
           fs1 == IF tolerated
                  THEN Append(l2.findings,
                              StalenessFinding(id1.id, "INFO", l2.primer_sha, l2.current_sha,
                                               [sha_lag |-> l2.lag.commits,
                                                allowed_lag |-> allowed_lag]))
                  ELSE l2.findings
           primer_sha == IF tolerated THEN NoSha ELSE l2.primer_sha
           id2 == next_id(c1, 2)
       IN l2' = [l2 EXCEPT
                   !.state = "directory_map",
                   !.primer_sha = primer_sha,
                   !.counter = IF differ(primer_sha) THEN id2.counts ELSE c1,
                   !.findings = IF differ(primer_sha)
                                THEN Append(fs1, StalenessFinding(id2.id, "MAJOR", primer_sha,
                                                                  l2.current_sha,
                                                                  [fix_command |-> "generate-project-primer"]))
                                ELSE fs1]
    /\ UNCHANGED <<mainVars, rr, sv, l3, l1, rp, xt>>

\* the directory-map check, skipped for a profile without validators, and
\* the return
CheckDirectoryMap ==
    /\ l2.state = "directory_map"
    /\ l2.op = "_check_generator_drift"
    /\ LET skip == l2.profile.given /\ ~l2.profile.has_validators
           nid == next_id(l2.counter, 2)
           missing_in_primer == l2.ground_truth \ l2.primer_validators
       IN IF ~skip /\ omits_enough(missing_in_primer)
          THEN l2' = [l2 EXCEPT !.state = "done", !.counter = nid.counts,
                                !.findings = Append(@, DirectoryMapFinding(nid.id,
                                                          Cardinality(missing_in_primer)))]
          ELSE l2' = [l2 EXCEPT !.state = "done"]
    /\ UNCHANGED <<mainVars, rr, sv, l3, l1, rp, xt>>

NextGenerator == NoPrimer \/ ReadHashes \/ CheckStaleness \/ CheckDirectoryMap

SpecGenerator == InitGenerator /\ [][NextGenerator]_vars


(***************************************************************************)
(* level1.py: _check_stale_paths, called on its own.  The rule patterns    *)
(* are literal strings, which are regular expressions that match           *)
(* themselves.                                                             *)
(***************************************************************************)
\* the longest stale_path_patterns list considered
MaxStaleRules == 2

RECURSIVE finditer_literal(_, _, _)
\* regex.finditer(line) for a literal pattern, from position i on: the
\* non-overlapping occurrences, left to right, as [start, end] (1-based,
\* inclusive)
finditer_literal(line, pattern, i) ==
    IF i + Len(pattern) - 1 > Len(line) THEN <<>>
    ELSE IF SubSeq(line, i, i + Len(pattern) - 1) = pattern
    THEN <<[start |-> i, end |-> i + Len(pattern) - 1]>>
         \o finditer_literal(line, pattern, i + Len(pattern))
    ELSE finditer_literal(line, pattern, i + 1)

\* extractors.check_path_context(line, match.start(), match.end()) for the
\* match at positions start..end
check_path_context(line, start, end) ==
    LET before == SubSeq(line, 1, start - 1)
        ticks == Cardinality({k \in 1..Len(before) : before[k] = Backtick})
        stripped == rstrip(before, Whitespace)
    IN \/ ticks % 2 = 1
       \/ (start > 1 /\ line[start - 1] \in {"/", "\\", "."})
       \/ (end < Len(line) /\ line[end + 1] \in {"/", "\\", "."})
       \/ (Len(stripped) >= 2 /\ SubSeq(stripped, Len(stripped) - 1, Len(stripped)) = <<"]", "(">>)

old_slash == <<"o", "l", "d", "/">>
old_word == <<"o", "l", "d">>
new_dir_slash == <<"n", "e", "w", "_", "d", "i", "r", "/">>
docs_slash == <<"d", "o", "c", "s", "/">>
docs_dir == <<"d", "o", "c", "s">>

\* the rules a stale_path_patterns list is made of
StaleRuleChoices ==
    { [pattern |-> old_slash, severity |-> "MAJOR", check_exists |-> TRUE,
       replacement |-> new_dir_slash, message |-> "moved to new_dir"],
      [pattern |-> old_slash, severity |-> "CRITICAL", check_exists |-> TRUE,
       replacement |-> docs_slash, message |-> "moved to docs"],
      [pattern |-> old_word, require_path_context |-> TRUE, message |-> "old as a path"],
      [pattern |-> old_word],
      [severity |-> "INFO", message |-> "no pattern"] }

\* the lines README.md and docs/guide.md may hold
StaleReadmeDocs ==
    { <<>>,
      << <<"s", "e", "e", " ", "o", "l", "d", "/", "x">> >>,
      << <<"o", "l", "d", "/", "a", " ", "o", "l", "d", "/", "b">>, <<"t", "h", "e", " ", "o", "l", "d", " ", "w", "a", "y">> >>,
      << <<Backtick, "o", "l", "d", Backtick>>, <<"[", "o", "]", "(", "o", "l", "d", ")">> >> }

StaleGuideDocs == { <<>>, << <<"s", "e", "e", " ", "o", "l", "d", "/", "x">> >> }

\* canonical_scope choices: the ones of Level 3 and one that names a directory
StaleScopeChoices == ScopeChoices \cup { <<docs_dir, README_md>> }

\* path.exists() for a path relative to the root ('' is the root itself)
exists(repo, rel_path) ==
    \/ rel_path = <<>>
    \/ rel_path \in Elements(repo_files(repo)) \cup Elements(repo_dirs(repo))

RECURSIVE stale_scope_files(_, _)
\* the loop over canonical_scope of _check_stale_paths: a glob, or an exact
\* entry that exists
stale_scope_files(repo, scope) ==
    IF scope = <<>> THEN <<>>
    ELSE LET pattern == Head(scope)
             found == IF "*" \in Elements(pattern) THEN glob(repo, pattern)
                      ELSE IF exists(repo, pattern) THEN <<pattern>>
                      ELSE <<>>
         IN found \o stale_scope_files(repo, Tail(scope))

\* files_to_scan of _check_stale_paths after the excludes filter
stale_files_to_scan(repo, r) ==
    SelectSeq(stale_scope_files(repo, get(r, "canonical_scope", <<>>)),
              LAMBDA f : ~is_excluded(f, get(r, "excludes", <<>>)))

\* rule.get("message", f"Stale path pattern: {pattern}"): the text, and the
\* pattern formatted into it
stale_message(rule) ==
    IF "message" \in DOMAIN rule THEN [text |-> rule.message, pattern |-> <<>>]
    ELSE [text |-> "Stale path pattern: ", pattern |-> get(rule, "pattern", <<>>)]

\* the Finding of _check_stale_paths
StalePathFinding(id, rule, rel_path, line_num, matched) ==
    [id |-> id, level_detected |-> 1, severity |-> get(rule, "severity", "MINOR"),
     category |-> "stale_path", file |-> rel_path, line |-> line_num,
     message |-> stale_message(rule),
     confidence |-> "high", requires_review |-> FALSE,
     context |-> [matched |-> matched, replacement |-> get(rule, "replacement", <<>>)]]

skips_rule_never(repo, rule) == FALSE

\* the rule is skipped by the check_exists condition: check_exists is set and
\* repo_root / replacement.rstrip("/") does not exist
skips_rule(repo, rule) ==
    /\ get(rule, "check_exists", FALSE)
    /\ ~exists(repo, rstrip(get(rule, "replacement", <<>>), {"/"}))

RECURSIVE match_findings(_, _, _, _, _, _, _)
\* the loop `for match in regex.finditer(line)`
match_findings(c, fs, rule, rel_path, line_num, line, matches) ==
    IF matches = <<>> THEN [counts |-> c, findings |-> fs]
    ELSE LET m == Head(matches)
             nid == next_id(c, 1)
         IN IF get(rule, "require_path_context", FALSE)
               /\ ~check_path_context(line, m.start, m.end)
            THEN match_findings(c, fs, rule, rel_path, line_num, line, Tail(matches))
            ELSE match_findings(nid.counts,
                                Append(fs, StalePathFinding(nid.id, rule, rel_path, line_num,
                                                            SubSeq(line, m.start, m.end))),
                                rule, rel_path, line_num, line, Tail(matches))

RECURSIVE line_findings(_, _, _, _, _, _)
\* the loop over the lines of the file for one rule
line_findings(c, fs, rule, rel_path, lines, line_num) ==
    IF line_num > Len(lines) THEN [counts |-> c, findings |-> fs]
    ELSE LET out == match_findings(c, fs, rule, rel_path, line_num, lines[line_num],
                                   finditer_literal(lines[line_num], rule.pattern, 1))
         IN line_findings(out.counts, out.findings, rule, rel_path, lines, line_num + 1)

\* re.compile(pattern) succeeds: the patterns considered are literals,
\* except that an opening parenthesis in them lacks its closing one
compiles(pattern) == "(" \notin Elements(pattern)

\* Severity[severity_str] finds a member (it raises KeyError otherwise)
severity_lookup(severity_str) == severity_str \in Severity

RECURSIVE rule_findings(_, _, _, _, _, _)
\* the loop `for rule in stale_patterns` over one file; `raised` tells that
\* Severity[severity_str] raised KeyError and ended the loop
rule_findings(c, fs, repo, stale_patterns, rel_path, lines) ==
    IF stale_patterns = <<>> THEN [counts |-> c, findings |-> fs, raised |-> FALSE]
    ELSE LET rule == Head(stale_patterns)
             rest == Tail(stale_patterns)
         IN IF get(rule, "pattern", <<>>) = <<>>
            THEN rule_findings(c, fs, repo, rest, rel_path, lines)
            ELSE IF ~severity_lookup(get(rule, "severity", "MINOR"))
            THEN [counts |-> c, findings |-> fs, raised |-> TRUE]
            ELSE IF skips_rule(repo, rule) \/ ~compiles(rule.pattern)
            THEN rule_findings(c, fs, repo, rest, rel_path, lines)
            ELSE LET out == line_findings(c, fs, rule, rel_path, lines, 1)
                 IN rule_findings(out.counts, out.findings, repo, rest, rel_path, lines)

\* file_path.is_file() and read_text() succeeds
readable_file(repo, rel_path) ==
    /\ rel_path \in Elements(repo_files(repo))
    /\ (rel_path = docs_guide_md => repo.guide_readable)

InitStale ==
    /\ MainIdle
    /\ rr = Idle
    /\ sv = Idle
    /\ l3 = Idle
    /\ l2 = Idle
    /\ rp = Idle
    /\ xt = Idle
    /\ \E scope \in StaleScopeChoices, e \in ExcludesChoices,
          sp \in SeqsUpTo(StaleRuleChoices, MaxStaleRules),
          readme \in StaleReadmeDocs, guide \in StaleGuideDocs, readable \in BOOLEAN :
         l1 = [state |-> "call", op |-> "_check_stale_paths",
               repo |-> [readme |-> readme, guide |-> guide, others |-> FALSE,
                         guide_readable |-> readable],
               rules |-> [canonical_scope |-> scope, excludes |-> e,
                          stale_path_patterns |-> sp],
               files_to_scan |-> <<>>,
               counter |-> FindingCounter_init,
               findings |-> <<>>]

\* _check_stale_paths up to the loop over files_to_scan
StaleFilesToScan ==
    /\ l1.state = "call"
    /\ l1.op = "_check_stale_paths"
    /\ l1' = [l1 EXCEPT !.state = "scan",
                        !.files_to_scan = stale_files_to_scan(l1.repo, l1.rules)]
    /\ UNCHANGED <<mainVars, rr, sv, l3, l2, rp, xt>>

\* one iteration of `for file_path in files_to_scan`; a KeyError leaves
\* _check_stale_paths, whose findings list is lost
ScanFileForStalePaths ==
    /\ l1.state = "scan"
    /\ l1.op = "_check_stale_paths"
    /\ l1.files_to_scan # <<>>
    /\ LET rel_path == Head(l1.files_to_scan)
           out == rule_findings(l1.counter, l1.findings, l1.repo,
                                get(l1.rules, "stale_path_patterns", <<>>), rel_path,
                                content_of(l1.repo, rel_path))
       IN IF ~readable_file(l1.repo, rel_path)
          THEN l1' = [l1 EXCEPT !.files_to_scan = Tail(@)]
          ELSE IF out.raised
          THEN l1' = [l1 EXCEPT !.state = "raised", !.counter = out.counts]
          ELSE l1' = [l1 EXCEPT !.files_to_scan = Tail(@), !.counter = out.counts,
                                !.findings = out.findings]
    /\ UNCHANGED <<mainVars, rr, sv, l3, l2, rp, xt>>

\* _check_stale_paths returns
ReturnStale ==
    /\ l1.state = "scan"
    /\ l1.op = "_check_stale_paths"
    /\ l1.files_to_scan = <<>>
    /\ l1' = [l1 EXCEPT !.state = "done"]
    /\ UNCHANGED <<mainVars, rr, sv, l3, l2, rp, xt>>

NextStale == StaleFilesToScan \/ ScanFileForStalePaths \/ ReturnStale

SpecStale == InitStale /\ [][NextStale]_vars

\* rules that are malformed, and one that is not: a severity that is no
\* member of Severity, a pattern that is no regular expression
MalformedRuleChoices ==
    { [pattern |-> old_slash, severity |-> "HIGH", message |-> "bad severity"],
      [pattern |-> <<"o", "l", "d", "(">>, message |-> "bad pattern"],
      [pattern |-> old_word] }

InitMalformed ==
    /\ MainIdle
    /\ rr = Idle
    /\ sv = Idle
    /\ l3 = Idle
    /\ l2 = Idle
    /\ rp = Idle
    /\ xt = Idle
    /\ \E scope \in StaleScopeChoices, e \in ExcludesChoices,
          sp \in SeqsUpTo(MalformedRuleChoices, MaxStaleRules),
          readme \in StaleReadmeDocs, guide \in StaleGuideDocs, readable \in BOOLEAN :
         l1 = [state |-> "call", op |-> "_check_stale_paths",
               repo |-> [readme |-> readme, guide |-> guide, others |-> FALSE,
                         guide_readable |-> readable],
               rules |-> [canonical_scope |-> scope, excludes |-> e,
                          stale_path_patterns |-> sp],
               files_to_scan |-> <<>>,
               counter |-> FindingCounter_init,
               findings |-> <<>>]

\* _check_stale_paths with malformed rules
SpecMalformed == InitMalformed /\ [][NextStale]_vars


(***************************************************************************)
(* level3.py: _find_misplaced_artifacts on repositories with several files *)
(* under validators/, at the end of a run_level3 that had no canonical     *)
(* document to scan                                                        *)
(***************************************************************************)
validators_check_py == <<"v", "a", "l", "i", "d", "a", "t", "o", "r", "s", "/", "c", "h", "e", "c", "k", ".", "p", "y">>
validators_README_md == <<"v", "a", "l", "i", "d", "a", "t", "o", "r", "s", "/", "R", "E", "A", "D", "M", "E", ".", "m", "d">>
validators_data_json == <<"v", "a", "l", "i", "d", "a", "t", "o", "r", "s", "/", "d", "a", "t", "a", ".", "j", "s", "o", "n">>
validators_Makefile == <<"v", "a", "l", "i", "d", "a", "t", "o", "r", "s", "/", "M", "a", "k", "e", "f", "i", "l", "e">>
validators_sub_x_txt == <<"v", "a", "l", "i", "d", "a", "t", "o", "r", "s", "/", "s", "u", "b", "/", "x", ".", "t", "x", "t">>

\* what validators/ may hold besides notes.txt, in directory order
ValidatorsDirFiles ==
    <<validators_check_py, validators_README_md, validators_data_json,
      validators_Makefile, validators_sub_x_txt>>

\* protected_from_archive for these repositories
MisplacedProtectedChoices ==
    ProtectedChoices \cup { << <<"v", "a", "l", "i", "d", "a", "t", "o", "r", "s", "/", "*", ".", "j", "s", "o", "n">> >>, << <<"v", "a", "l", "i", "d", "a", "t", "o", "r", "s", "/", "*">> >> }

InitMisplaced ==
    /\ MainIdle
    /\ rr = Idle
    /\ sv = Idle
    /\ CallsIdle
    /\ \E present \in SUBSET Elements(ValidatorsDirFiles), others \in BOOLEAN,
          p \in MisplacedProtectedChoices :
         l3 = [state |-> "orphans",
               repo |-> [readme |-> <<>>, guide |-> <<>>, others |-> others,
                         validators |-> SelectSeq(ValidatorsDirFiles,
                                                  LAMBDA f : f \in present)],
               rules |-> [canonical_scope |-> <<>>, protected_from_archive |-> p],
               files_to_scan |-> <<>>,
               graph |-> EmptyGraph,
               all_md_files |-> <<>>,
               age_days |-> [f \in Elements(MdFiles) |-> -1],
               counter |-> FindingCounter_init,
               findings |-> <<>>]

NextMisplaced == FindMisplacedArtifacts

SpecMisplaced == InitMisplaced /\ [][NextMisplaced]_vars


(***************************************************************************)
(* reporters.py: write_markdown_report and write_json_report, called in    *)
(* any order on one output directory with one date and one short hash.     *)
(* A report name is <<ext, n>>: drift_report_<date>_<hash>.<ext> for       *)
(* n = 0 and drift_report_<date>_<hash>_<n>.<ext> for n >= 1.  The         *)
(* directory maps each name to what the file holds: 0 when there is no     *)
(* such file, 1 for a file that was there before the first write, and      *)
(* k + 1 for the report of the k-th write.                                 *)
(***************************************************************************)
\* the highest suffix a file present before the first write may carry
MaxSuffix == 2
\* the number of report writes considered
MaxWrites == 3

Extensions == {"md", "json"}
ReportNames == Extensions \X (0..(MaxSuffix + MaxWrites))

path_exists_unsuffixed_only(files, ext, n) == n = 0 /\ files[<<ext, n>>] # 0

\* Path.exists() for the report name
path_exists(files, ext, n) == files[<<ext, n>>] # 0

InitReports ==
    /\ MainIdle
    /\ rr = Idle
    /\ sv = Idle
    /\ l3 = Idle
    /\ l1 = Idle
    /\ l2 = Idle
    /\ xt = Idle
    /\ \E old \in SUBSET (Extensions \X (0..MaxSuffix)) :
         rp = [state |-> "ready",
               files |-> [name \in ReportNames |-> IF name \in old THEN 1 ELSE 0],
               ext |-> "none", path |-> 0, counter |-> 0, writes |-> 0]

\* write_markdown_report up to the collision loop
BeginMarkdownReport ==
    /\ rp.state = "ready"
    /\ rp.writes < MaxWrites
    /\ rp' = [rp EXCEPT !.state = "collisions", !.ext = "md", !.path = 0, !.counter = 1]
    /\ UNCHANGED <<mainVars, rr, sv, l3, l1, l2, xt>>

\* write_json_report up to the collision loop
BeginJsonReport ==
    /\ rp.state = "ready"
    /\ rp.writes < MaxWrites
    /\ rp' = [rp EXCEPT !.state = "collisions", !.ext = "json", !.path = 0, !.counter = 1]
    /\ UNCHANGED <<mainVars, rr, sv, l3, l1, l2, xt>>

\* one iteration of `while path.exists()`
NextReportName ==
    /\ rp.state = "collisions"
    /\ path_exists(rp.files, rp.ext, rp.path)
    /\ rp' = [rp EXCEPT !.path = rp.counter, !.counter = rp.counter + 1]
    /\ UNCHANGED <<mainVars, rr, sv, l3, l1, l2, xt>>

\* the loop ends and path.write_text(...) writes the report
WriteReport ==
    /\ rp.state = "collisions"
    /\ ~path_exists(rp.files, rp.ext, rp.path)
    /\ rp' = [rp EXCEPT !.state = "ready",
                        !.files = [@ EXCEPT ![<<rp.ext, rp.path>>] = rp.writes + 2],
                        !.writes = rp.writes + 1]
    /\ UNCHANGED <<mainVars, rr, sv, l3, l1, l2, xt>>

NextReports ==
    \/ BeginMarkdownReport
    \/ BeginJsonReport
    \/ NextReportName
    \/ WriteReport

\* a write that has begun runs to its end
SpecReports ==
    InitReports /\ [][NextReports]_vars /\ WF_vars(NextReportName \/ WriteReport)


(***************************************************************************)
(* level2.py: the first step of run_level2, gated by the RepoProfile.      *)
(* main() calls run_level2(repo_root, rules, counter, verbose=...) and     *)
(* passes no profile; a caller of the function may pass                    *)
(* RepoProfile.detect(repo_root).                                          *)
(***************************************************************************)
\* profile=None, the default of run_level2
NoProfile == [given |-> FALSE, has_validators |-> FALSE]

\* RepoProfile.detect(repo_root).has_validators
has_validators(validators_is_dir, init_exists) == validators_is_dir /\ init_exists

\* `profile is None or profile.has_validators`
gate_open(profile) == ~profile.given \/ profile.has_validators

InitLevel2 ==
    /\ MainIdle
    /\ rr = Idle
    /\ sv = Idle
    /\ l3 = Idle
    /\ l1 = Idle
    /\ rp = Idle
    /\ xt = Idle
    /\ \E caller \in {"main", "run_level2"}, validators_is_dir \in BOOLEAN,
          init_exists \in BOOLEAN :
       \E n \in (IF validators_is_dir /\ init_exists THEN 0..MaxValidators ELSE {0}) :
       \E inv \in InventoryChoices(n) :
         /\ init_exists => validators_is_dir
         /\ l2 = [state |-> "gate", op |-> "run_level2",
                  caller |-> caller,
                  validators_is_dir |-> validators_is_dir,
                  init_exists |-> init_exists,
                  profile |-> IF caller = "main" THEN NoProfile
                              ELSE [given |-> TRUE,
                                    has_validators |->
                                      has_validators(validators_is_dir, init_exists)],
                  ground_truth |-> 1..n,
                  on_disk |-> inv,
                  docs |-> <<>>,
                  counter |-> FindingCounter_init,
                  findings |-> <<>>]

\* the gate is open: _check_validator_consistency is called
CallValidatorConsistency ==
    /\ l2.state = "gate"
    /\ l2.op = "run_level2"
    /\ gate_open(l2.profile)
    /\ l2' = [l2 EXCEPT !.state = "call", !.op = "_check_validator_consistency"]
    /\ UNCHANGED <<mainVars, rr, sv, l3, l1, rp, xt>>

\* the gate is closed: the check is skipped
SkipValidatorConsistency ==
    /\ l2.state = "gate"
    /\ l2.op = "run_level2"
    /\ ~gate_open(l2.profile)
    /\ l2' = [l2 EXCEPT !.state = "done"]
    /\ UNCHANGED <<mainVars, rr, sv, l3, l1, rp, xt>>

NextLevel2 ==
    \/ CallValidatorConsistency
    \/ SkipValidatorConsistency
    \/ NoGroundTruth
    \/ ExtractInventories
    \/ CompareDoc
    \/ ReturnValidators

SpecLevel2 == InitLevel2 /\ [][NextLevel2]_vars


(***************************************************************************)
(* extractors.py: one call of get_available_validators,                    *)
(* extract_internal_links or extract_path_references on a file that is     *)
(* missing, cannot be read, cannot be decoded, or holds text               *)
(***************************************************************************)
\* the registry validators/__init__.py may hold: each line registers a name
\* ("name": "check_name",) or is other text
RegistryLines == { [registers |-> "a"], [registers |-> "b"], [other |-> "text"] }

\* the longest registry considered
MaxRegistryLines == 2

\* the set re.finditer of get_available_validators collects
registered_names(content) ==
    { content[k].registers : k \in {j \in 1..Len(content) : "registers" \in DOMAIN content[j]} }

Extractors == {"get_available_validators", "extract_internal_links",
               "extract_path_references"}

\* what the file is: not there, a file that open() refuses (no permission,
\* or a directory of that name), bytes that are not text in the locale's
\* encoding, or text
FileKinds == {"missing", "unreadable", "undecodable", "text"}

\* the extractor's empty value
empty_value(op) == IF op = "get_available_validators" THEN {} ELSE <<>>

\* what the extractor makes of the text
extracted(op, content) ==
    IF op = "get_available_validators" THEN registered_names(content)
    ELSE LET repo == [readme |-> content, guide |-> <<>>, others |-> FALSE]
         IN IF op = "extract_internal_links" THEN extract_internal_links(repo, README_md)
            ELSE extract_path_references(repo, README_md)

\* the outcome of path.read_text()
read_text(file) ==
    IF file.kind = "text" THEN [kind |-> "return", value |-> file.content]
    ELSE IF file.kind = "undecodable" THEN [kind |-> "raise", value |-> "UnicodeDecodeError"]
    ELSE [kind |-> "raise", value |-> "OSError"]

InitExtract ==
    /\ MainIdle
    /\ rr = Idle
    /\ sv = Idle
    /\ l3 = Idle
    /\ l1 = Idle
    /\ l2 = Idle
    /\ rp = Idle
    /\ \E op \in Extractors, kind \in FileKinds :
       \E content \in (IF kind # "text" THEN {<<>>}
                       ELSE IF op = "get_available_validators"
                       THEN SeqsUpTo(RegistryLines, MaxRegistryLines)
                       ELSE ReadmeDocs \cup GuideDocs) :
         xt = [state |-> "call", op |-> op,
               file |-> [kind |-> kind, content |-> content],
               result |-> [kind |-> "none", value |-> <<>>]]

\* `if not path.exists(): return` the empty value
ExtractorFileMissing ==
    /\ xt.state = "call"
    /\ xt.file.kind = "missing"
    /\ xt' = [xt EXCEPT !.state = "done",
                        !.result = [kind |-> "return", value |-> empty_value(xt.op)]]
    /\ UNCHANGED <<mainVars, rr, sv, l3, l1, l2, rp>>

\* the file exists: go on to read it
ExtractorFileExists ==
    /\ xt.state = "call"
    /\ xt.file.kind # "missing"
    /\ xt' = [xt EXCEPT !.state = "read"]
    /\ UNCHANGED <<mainVars, rr, sv, l3, l1, l2, rp>>

\* content = path.read_text() and the extraction from it; an exception of
\* read_text leaves the extractor
ExtractorReads ==
    /\ xt.state = "read"
    /\ LET content == read_text(xt.file)
       IN xt' = [xt EXCEPT !.state = "done",
                           !.result = IF content.kind = "raise" THEN content
                                      ELSE [kind |-> "return",
                                            value |-> extracted(xt.op, content.value)]]
    /\ UNCHANGED <<mainVars, rr, sv, l3, l1, l2, rp>>

NextExtract == ExtractorFileMissing \/ ExtractorFileExists \/ ExtractorReads

SpecExtract == InitExtract /\ [][NextExtract]_vars


(***************************************************************************)
(* level1.py: the delegated validators at the end of run_level1,           *)
(* _run_repo_contract and _run_readme_repo_card.  A captured text is a     *)
(* record [out, err]: `out` characters of stdout followed by `err`         *)
(* characters of stderr.                                                   *)
(***************************************************************************)
\* timeout=30 of subprocess.run, in seconds
ValidatorTimeout == 30
\* output[:500]
OutputLimit == 500

\* how long a script may run, in seconds
Durations == {1, ValidatorTimeout + 1}
StdoutLengths == {0, OutputLimit - 1, OutputLimit + 1}
StderrLengths == {0, 2}

\* what a delegated script may be and do: absent; impossible to start;
\* running for `duration` seconds and ending with `returncode`, having
\* written text that can or cannot be decoded
Scripts ==
    { [exists |-> FALSE] }
    \cup { [exists |-> TRUE, starts |-> FALSE] }
    \cup { [exists |-> TRUE, starts |-> TRUE, duration |-> ValidatorTimeout + 1,
            returncode |-> 1, decodable |-> TRUE, out |-> 0, err |-> 0] }
    \cup { [exists |-> TRUE, starts |-> TRUE, duration |-> 1,
            returncode |-> 1, decodable |-> FALSE, out |-> 1, err |-> 0] }
    \cup [exists : {TRUE}, starts : {TRUE}, duration : {1}, returncode : {0, 1},
          decodable : {TRUE}, out : StdoutLengths, err : StderrLengths]

\* subprocess.run(..., capture_output=True, text=True, timeout=30): a
\* CompletedProcess, or the exception it raises
subprocess_run(script) ==
    IF ~script.starts THEN [kind |-> "raise", value |-> "OSError"]
    ELSE IF script.duration > ValidatorTimeout
    THEN [kind |-> "raise", value |-> "TimeoutExpired"]
    ELSE IF ~script.decodable THEN [kind |-> "raise", value |-> "UnicodeDecodeError"]
    ELSE [kind |-> "return", returncode |-> script.returncode,
          stdout |-> script.out, stderr |-> script.err]

truncate_never(text, limit) == text

\* text[:limit]
truncate(text, limit) ==
    LET kept == IF text.out < limit THEN text.out ELSE limit
        rest == limit - kept
    IN [out |-> kept, err |-> IF text.err < rest THEN text.err ELSE rest]

\* the Finding of a delegated validator that failed
DelegatedFinding(id, category, file, result) ==
    [id |-> id, level_detected |-> 1, severity |-> "MAJOR",
     category |-> category, file |-> file,
     confidence |-> "high", requires_review |-> FALSE,
     context |-> [output |-> truncate([out |-> result.stdout, err |-> result.stderr],
                                      OutputLimit)]]

\* the body shared by _run_repo_contract and _run_readme_repo_card: no
\* script, no findings; a non-zero return code, one finding; an exception
\* of subprocess.run is caught
run_delegated(c, fs, script, category, file) ==
    IF ~script.exists THEN [counts |-> c, findings |-> fs]
    ELSE LET result == subprocess_run(script)
             nid == next_id(c, 1)
         IN IF result.kind = "return" /\ result.returncode # 0
            THEN [counts |-> nid.counts,
                  findings |-> Append(fs, DelegatedFinding(nid.id, category, file, result))]
            ELSE [counts |-> c, findings |-> fs]

InitDelegated ==
    /\ MainIdle
    /\ rr = Idle
    /\ sv = Idle
    /\ l3 = Idle
    /\ l2 = Idle
    /\ rp = Idle
    /\ xt = Idle
    /\ \E a \in Scripts, b \in Scripts :
         l1 = [state |-> "repo_contract", op |-> "run_level1",
               check_repo_contract |-> a,
               validate_readme_repo_card |-> b,
               counter |-> FindingCounter_init,
               findings |-> <<>>]

\* 6. findings.extend(_run_repo_contract(repo_root, counter, verbose))
RunRepoContract ==
    /\ l1.op = "run_level1"
    /\ l1.state = "repo_contract"
    /\ LET out == run_delegated(l1.counter, l1.findings, l1.check_repo_contract,
                                "inventory_mismatch", "validators/check_repo_contract.py")
       IN l1' = [l1 EXCEPT !.state = "readme_repo_card", !.counter = out.counts,
                           !.findings = out.findings]
    /\ UNCHANGED <<mainVars, rr, sv, l3, l2, rp, xt>>

\* 7. findings.extend(_run_readme_repo_card(repo_root, counter, verbose))
RunReadmeRepoCard ==
    /\ l1.op = "run_level1"
    /\ l1.state = "readme_repo_card"
    /\ LET out == run_delegated(l1.counter, l1.findings, l1.validate_readme_repo_card,
                                "broken_link", "README.md")
       IN l1' = [l1 EXCEPT !.state = "return", !.counter = out.counts,
                           !.findings = out.findings]
    /\ UNCHANGED <<mainVars, rr, sv, l3, l2, rp, xt>>

\* return findings
ReturnLevel1 ==
    /\ l1.op = "run_level1"
    /\ l1.state = "return"
    /\ l1' = [l1 EXCEPT !.state = "done"]
    /\ UNCHANGED <<mainVars, rr, sv, l3, l2, rp, xt>>

NextDelegated == RunRepoContract \/ RunReadmeRepoCard \/ ReturnLevel1

SpecDelegated == InitDelegated /\ [][NextDelegated]_vars


(***************************************************************************)
(* repo_drift_detector.py: get_git_info.  Both git commands run inside one *)
(* try block.                                                              *)
(***************************************************************************)
\* the value of a field that could not be read
unknown == <<"u", "n", "k", "n", "o", "w", "n">>

\* what str.strip() removes from the output of git
GitWhitespace == Whitespace \cup {"\n"}

\* what a git command may do: end with a return code and text on stdout,
\* run past the timeout, or write bytes that are not text
ShaOutcomes ==
    { [kind |-> "exit", returncode |-> 0, stdout |-> <<"a", "b", "c", "1", "2", "3", "4", "\n">>],
      [kind |-> "exit", returncode |-> 0, stdout |-> <<"0", "f", "\n">>],
      [kind |-> "exit", returncode |-> 0, stdout |-> <<>>],
      [kind |-> "exit", returncode |-> 128, stdout |-> <<>>],
      [kind |-> "exit", returncode |-> 1, stdout |-> <<"a", "b", "c", "1", "2", "3", "4", "\n">>],
      [kind |-> "timeout", returncode |-> -1, stdout |-> <<>>],
      [kind |-> "undecodable", returncode |-> 0, stdout |-> <<>>] }

BranchOutcomes ==
    { [kind |-> "exit", returncode |-> 0, stdout |-> <<"m", "a", "i", "n", "\n">>],
      [kind |-> "exit", returncode |-> 0, stdout |-> <<"H", "E", "A", "D", "\n">>],
      [kind |-> "exit", returncode |-> 0, stdout |-> <<" ", "d", "e", "v", " ", "\n">>],
      [kind |-> "exit", returncode |-> 128, stdout |-> <<>>],
      [kind |-> "exit", returncode |-> 1, stdout |-> <<"m", "a", "i", "n", "\n">>],
      [kind |-> "timeout", returncode |-> -1, stdout |-> <<>>],
      [kind |-> "undecodable", returncode |-> 0, stdout |-> <<>>] }

\* subprocess.run(["git", ...], capture_output=True, text=True, timeout=10):
\* a CompletedProcess, or the exception raised
git_run(git_present, outcome) ==
    IF ~git_present THEN [kind |-> "raise", value |-> "FileNotFoundError"]
    ELSE IF outcome.kind = "timeout" THEN [kind |-> "raise", value |-> "TimeoutExpired"]
    ELSE IF outcome.kind = "undecodable" THEN [kind |-> "raise", value |-> "UnicodeDecodeError"]
    ELSE [kind |-> "return", returncode |-> outcome.returncode, stdout |-> outcome.stdout]

\* result.stdout.strip() if result.returncode == 0 else unknown
git_field(result) ==
    IF result.returncode = 0 THEN rstrip(lstrip(result.stdout, GitWhitespace), GitWhitespace)
    ELSE unknown

InitGitInfo ==
    /\ MainIdle
    /\ rr = Idle
    /\ sv = Idle
    /\ l3 = Idle
    /\ l1 = Idle
    /\ l2 = Idle
    /\ rp = Idle
    /\ \E git_present \in BOOLEAN, a \in ShaOutcomes, b \in BranchOutcomes :
         xt = [state |-> "rev-parse --short", op |-> "get_git_info",
               git_present |-> git_present,
               sha_command |-> a, branch_command |-> b,
               sha |-> <<>>, branch |-> <<>>,
               result |-> [kind |-> "none"]]

\* the first subprocess.run and the assignment of sha; an exception goes to
\* `except Exception: return unknown, unknown`
GitRevParseShort ==
    /\ xt.op = "get_git_info"
    /\ xt.state = "rev-parse --short"
    /\ LET sha_result == git_run(xt.git_present, xt.sha_command)
       IN IF sha_result.kind = "raise"
          THEN xt' = [xt EXCEPT !.state = "done",
                                !.result = [kind |-> "return", sha |-> unknown,
                                            branch |-> unknown]]
          ELSE xt' = [xt EXCEPT !.state = "rev-parse --abbrev-ref",
                                !.sha = git_field(sha_result)]
    /\ UNCHANGED <<mainVars, rr, sv, l3, l1, l2, rp>>

\* the second subprocess.run, the assignment of branch and `return sha,
\* branch`; an exception goes to the same except clause
GitRevParseAbbrevRef ==
    /\ xt.op = "get_git_info"
    /\ xt.state = "rev-parse --abbrev-ref"
    /\ LET branch_result == git_run(xt.git_present, xt.branch_command)
       IN IF branch_result.kind = "raise"
          THEN xt' = [xt EXCEPT !.state = "done",
                                !.result = [kind |-> "return", sha |-> unknown,
                                            branch |-> unknown]]
          ELSE xt' = [xt EXCEPT !.state = "done",
                                !.branch = git_field(branch_result),
                                !.result = [kind |-> "return", sha |-> xt.sha,
                                            branch |-> git_field(branch_result)]]
    /\ UNCHANGED <<mainVars, rr, sv, l3, l1, l2, rp>>

NextGitInfo == GitRevParseShort \/ GitRevParseAbbrevRef

SpecGitInfo == InitGitInfo /\ [][NextGitInfo]_vars

(***************************************************************************)
(* level1.py: _check_validator_inventory, called on its own.  File and     *)
(* validator names are sequences of characters.                            *)
(***************************************************************************)
RECURSIVE replace(_, _, _)
\* s.replace(old, new) for a non-empty `old`: every occurrence, left to right
replace(s, old, new) ==
    IF Len(s) < Len(old) THEN s
    ELSE IF SubSeq(s, 1, Len(old)) = old
    THEN new \o replace(SubSeq(s, Len(old) + 1, Len(s)), old, new)
    ELSE <<Head(s)>> \o replace(Tail(s), old, new)

check_prefix == <<"c", "h", "e", "c", "k", "_">>
py_suffix == <<".", "p", "y">>

\* f.replace("check_", "").replace(".py", "")
actual_name(f) == replace(replace(f, check_prefix, <<>>), py_suffix, <<>>)

\* the check_*.py files validators/ may hold
ValidatorFiles == { <<"c", "h", "e", "c", "k", "_", "a", ".", "p", "y">>, <<"c", "h", "e", "c", "k", "_", "b", ".", "p", "y">>, <<"c", "h", "e", "c", "k", "_", "r", "e", "c", "h", "e", "c", "k", "_", "c", ".", "p", "y">> }

\* the names validators/__init__.py may register
RegisteredNames == { <<"a">>, <<"b">>, <<"r", "e", "c", "h", "e", "c", "k", "_", "c">>, <<"r", "e", "c">> }

\* the Findings of _check_validator_inventory; the message lists the names
\* sorted, which the set determines
UnregisteredFinding(id, unregistered) ==
    [id |-> id, level_detected |-> 1, severity |-> "CRITICAL",
     category |-> "inventory_mismatch", file |-> "validators/__init__.py",
     message |-> "Validators exist but not in AVAILABLE_VALIDATORS", listed |-> unregistered,
     confidence |-> "high", requires_review |-> FALSE, context |-> NoEntries]

MissingFilesFinding(id, missing) ==
    [id |-> id, level_detected |-> 1, severity |-> "CRITICAL",
     category |-> "inventory_mismatch", file |-> "validators/__init__.py",
     message |-> "Validators registered but files missing", listed |-> missing,
     confidence |-> "high", requires_review |-> FALSE, context |-> NoEntries]

\* _check_validator_inventory for the files on disk and the registry
validator_inventory(c, fs, actual_files, registered) ==
    LET actual_names == { actual_name(f) : f \in actual_files }
        unregistered == actual_names \ registered
        missing == registered \ actual_names
        id1 == next_id(c, 1)
        c1 == IF unregistered # {} THEN id1.counts ELSE c
        fs1 == IF unregistered # {} THEN Append(fs, UnregisteredFinding(id1.id, unregistered))
               ELSE fs
        id2 == next_id(c1, 1)
    IN IF missing # {}
       THEN [counts |-> id2.counts, findings |-> Append(fs1, MissingFilesFinding(id2.id, missing))]
       ELSE [counts |-> c1, findings |-> fs1]

InitInventory ==
    /\ MainIdle
    /\ rr = Idle
    /\ sv = Idle
    /\ l3 = Idle
    /\ l2 = Idle
    /\ rp = Idle
    /\ xt = Idle
    /\ \E actual_files \in SUBSET ValidatorFiles, registered \in SUBSET RegisteredNames :
         l1 = [state |-> "call", op |-> "_check_validator_inventory",
               actual_files |-> actual_files,
               registered |-> registered,
               counter |-> FindingCounter_init,
               findings |-> <<>>]

\* the whole of _check_validator_inventory
CheckValidatorInventory ==
    /\ l1.op = "_check_validator_inventory"
    /\ l1.state = "call"
    /\ LET out == validator_inventory(l1.counter, l1.findings, l1.actual_files, l1.registered)
       IN l1' = [l1 EXCEPT !.state = "done", !.counter = out.counts,
                           !.findings = out.findings]
    /\ UNCHANGED <<mainVars, rr, sv, l3, l2, rp, xt>>

NextInventory == CheckValidatorInventory

SpecInventory == InitInventory /\ [][NextInventory]_vars

(***************************************************************************)
(* level1.py: run_level1 as a whole, run twice on one repository and one   *)
(* set of rules.  What a delegated script does belongs to the repository.  *)
(***************************************************************************)
\* the Findings of _check_canonical_scope
EmptyGlobFinding(id, pattern) ==
    [id |-> id, level_detected |-> 1, severity |-> "INFO",
     category |-> "config_warning", file |-> "None",
     message |-> [text |-> "Canonical scope glob matches zero files", pattern |-> pattern],
     confidence |-> "high", requires_review |-> FALSE, context |-> NoEntries]

MissingScopeFileFinding(id, pattern) ==
    [id |-> id, level_detected |-> 1, severity |-> "INFO",
     category |-> "config_warning", file |-> "None",
     message |-> [text |-> "Canonical scope file does not exist", pattern |-> pattern],
     confidence |-> "high", requires_review |-> FALSE, context |-> NoEntries]

RECURSIVE canonical_scope_findings(_, _, _, _)
\* _check_canonical_scope: the loop over canonical_scope
canonical_scope_findings(c, fs, repo, scope) ==
    IF scope = <<>> THEN [counts |-> c, findings |-> fs]
    ELSE LET pattern == Head(scope)
             nid == next_id(c, 1)
         IN IF "*" \in Elements(pattern)
            THEN IF glob(repo, pattern) = <<>>
                 THEN canonical_scope_findings(nid.counts,
                          Append(fs, EmptyGlobFinding(nid.id, pattern)), repo, Tail(scope))
                 ELSE canonical_scope_findings(c, fs, repo, Tail(scope))
            ELSE IF ~exists(repo, pattern)
                 THEN canonical_scope_findings(nid.counts,
                          Append(fs, MissingScopeFileFinding(nid.id, pattern)), repo, Tail(scope))
                 ELSE canonical_scope_findings(c, fs, repo, Tail(scope))

allowed_dirs ==
    { <<"0", "0", "_", "a", "d", "m", "i", "n">>,
      <<"0", "0", "_", "r", "u", "n">>,
      <<"1", "0", "_", "d", "o", "c", "s">>,
      <<"2", "0", "_", "a", "p", "p", "r", "o", "v", "a", "l", "s">>,
      <<"2", "0", "_", "i", "n", "b", "o", "x">>,
      <<"2", "0", "_", "r", "e", "c", "e", "i", "p", "t", "s">>,
      <<"3", "0", "_", "c", "o", "n", "f", "i", "g">>,
      <<"4", "0", "_", "s", "r", "c">>,
      <<"5", "0", "_", "d", "a", "t", "a">>,
      <<"5", "0", "_", "r", "e", "f", "e", "r", "e", "n", "c", "e", "_", "r", "e", "p", "o", "r", "t", "s">>,
      <<"6", "0", "_", "t", "e", "s", "t", "s">>,
      <<"7", "0", "_", "e", "v", "i", "d", "e", "n", "c", "e">>,
      <<"8", "0", "_", "e", "v", "i", "d", "e", "n", "c", "e", "_", "p", "a", "c", "k", "a", "g", "e", "s">>,
      <<"8", "0", "_", "r", "e", "p", "o", "r", "t", "s">>,
      <<"9", "0", "_", "a", "r", "c", "h", "i", "v", "e">>,
      <<"s", "c", "h", "e", "m", "a", "s">>,
      <<"p", "r", "o", "t", "o", "c", "o", "l", "s">>,
      <<"t", "a", "x", "o", "n", "o", "m", "i", "e", "s">>,
      <<"v", "a", "l", "i", "d", "a", "t", "o", "r", "s">>,
      <<"s", "c", "r", "i", "p", "t", "s">>,
      <<"t", "e", "s", "t", "s">>,
      <<"e", "x", "a", "m", "p", "l", "e", "s">>,
      <<"p", "o", "l", "i", "c", "y">>,
      <<"r", "e", "g", "i", "s", "t", "r", "y">>,
      <<"d", "o", "c", "s">>,
      <<"w", "o", "r", "k", "s", "p", "a", "c", "e">> }

\* the names a top-level directory may have besides docs and validators,
\* in the order sorted() gives them
OtherDirNames == << <<".", "g", "i", "t">>, <<"a", "l", "p", "h", "a">>, <<"t", "m", "p">> >>

UnexpectedDirFinding(id, dir_name) ==
    [id |-> id, level_detected |-> 1, severity |-> "MINOR",
     category |-> "inventory_mismatch", file |-> dir_name,
     message |-> [text |-> "Unexpected top-level directory", pattern |-> dir_name],
     confidence |-> "high", requires_review |-> FALSE, context |-> NoEntries]

RECURSIVE unexpected_dir_findings(_, _, _)
unexpected_dir_findings(c, fs, names) ==
    IF names = <<>> THEN [counts |-> c, findings |-> fs]
    ELSE LET nid == next_id(c, 1)
         IN unexpected_dir_findings(nid.counts,
                Append(fs, UnexpectedDirFinding(nid.id, Head(names))), Tail(names))

\* _check_top_level_dirs: the directories of the root whose name does not
\* start with a dot and is not allowed, each reported, in sorted order
top_level_dirs(c, fs, repo, other_dirs) ==
    LET actual_dirs == { d \in Elements(repo_dirs(repo)) \cup other_dirs : Head(d) # "." }
        unexpected == actual_dirs \ allowed_dirs
    IN unexpected_dir_findings(c, fs, SelectSeq(OtherDirNames, LAMBDA d : d \in unexpected))

\* the Findings of _check_schema_inventory
MissingDirFinding(id, dir_name) ==
    [id |-> id, level_detected |-> 1, severity |-> "MAJOR",
     category |-> "inventory_mismatch", file |-> "None",
     message |-> [text |-> "Missing directory", pattern |-> dir_name],
     confidence |-> "high", requires_review |-> FALSE, context |-> NoEntries]

EmptyDirFinding(id, dir_name) ==
    [id |-> id, level_detected |-> 1, severity |-> "MINOR",
     category |-> "inventory_mismatch", file |-> dir_name,
     message |-> [text |-> "directory is empty", pattern |-> dir_name],
     confidence |-> "high", requires_review |-> FALSE, context |-> NoEntries]

RECURSIVE schema_inventory(_, _, _, _)
\* _check_schema_inventory: for schemas and taxonomies, the directory is
\* "missing", "empty" (no yaml, yml or json file) or "filled"
schema_inventory(c, fs, dir_names, dir_state) ==
    IF dir_names = <<>> THEN [counts |-> c, findings |-> fs]
    ELSE LET dir_name == Head(dir_names)
             nid == next_id(c, 1)
         IN IF dir_state[dir_name] = "missing"
            THEN schema_inventory(nid.counts, Append(fs, MissingDirFinding(nid.id, dir_name)),
                                  Tail(dir_names), dir_state)
            ELSE IF dir_state[dir_name] = "empty"
            THEN schema_inventory(nid.counts, Append(fs, EmptyDirFinding(nid.id, dir_name)),
                                  Tail(dir_names), dir_state)
            ELSE schema_inventory(c, fs, Tail(dir_names), dir_state)

RECURSIVE stale_paths(_, _, _, _, _)
\* the loop over files_to_scan of _check_stale_paths
stale_paths(c, fs, repo, r, files) ==
    IF files = <<>> THEN [counts |-> c, findings |-> fs, raised |-> FALSE]
    ELSE LET rel_path == Head(files)
             out == rule_findings(c, fs, repo, get(r, "stale_path_patterns", <<>>), rel_path,
                                  content_of(repo, rel_path))
         IN IF ~readable_file(repo, rel_path) THEN stale_paths(c, fs, repo, r, Tail(files))
            ELSE IF out.raised THEN out
            ELSE stale_paths(out.counts, out.findings, repo, r, Tail(files))

second_run_counter_reused(fresh, c) == c

\* the counter a second run is given: FindingCounter() when the caller
\* makes a fresh one as main() does, else the one of the first run
second_run_counter(fresh, c) == IF fresh THEN FindingCounter_init ELSE c

Level1Repos ==
    [readme : { <<>>, << <<"o", "l", "d", "/", "a", " ", "o", "l", "d", "/", "b">>, <<"t", "h", "e", " ", "o", "l", "d", " ", "w", "a", "y">> >> },
     guide : { << <<"s", "e", "e", " ", "o", "l", "d", "/", "x">> >> },
     others : {FALSE}, guide_readable : BOOLEAN]

Level1Rules ==
    [canonical_scope : ScopeChoices, excludes : {<<>>},
     stale_path_patterns : { <<>>,
        << [pattern |-> old_slash, severity |-> "MAJOR", message |-> "moved"],
           [pattern |-> old_word, require_path_context |-> TRUE] >> }]

Level1Inventories ==
    { [files |-> {}, registered |-> {}],
      [files |-> { <<"c", "h", "e", "c", "k", "_", "a", ".", "p", "y">> }, registered |-> { <<"a">> }],
      [files |-> { <<"c", "h", "e", "c", "k", "_", "a", ".", "p", "y">>, <<"c", "h", "e", "c", "k", "_", "b", ".", "p", "y">> }, registered |-> { <<"a">>, <<"r", "e", "c">> }] }

Level1Scripts ==
    { [exists |-> FALSE],
      [exists |-> TRUE, starts |-> TRUE, duration |-> 1, returncode |-> 1,
       decodable |-> TRUE, out |-> OutputLimit + 1, err |-> 2] }

InitLevel1 ==
    /\ MainIdle
    /\ rr = Idle
    /\ sv = Idle
    /\ l3 = Idle
    /\ l2 = Idle
    /\ rp = Idle
    /\ xt = Idle
    /\ \E repo \in Level1Repos, r \in Level1Rules,
          other_dirs \in { {}, { <<".", "g", "i", "t">>, <<"t", "m", "p">> }, { <<"t", "m", "p">>, <<"a", "l", "p", "h", "a">> } },
          inv \in Level1Inventories,
          dir_state \in { [schemas |-> "filled", taxonomies |-> "filled"],
                          [schemas |-> "missing", taxonomies |-> "empty"],
                          [schemas |-> "empty", taxonomies |-> "missing"] },
          a \in Level1Scripts, b \in Level1Scripts, fresh \in BOOLEAN :
         l1 = [state |-> "canonical_scope", op |-> "run_level1",
               repo |-> repo, rules |-> r, other_dirs |-> other_dirs,
               actual_files |-> inv.files, registered |-> inv.registered,
               dir_state |-> dir_state,
               check_repo_contract |-> a,
               validate_readme_repo_card |-> b,
               fresh |-> fresh, run |-> 1, first |-> <<>>,
               counter |-> FindingCounter_init,
               findings |-> <<>>]

\* 1. findings.extend(_check_canonical_scope(...))
Level1CanonicalScope ==
    /\ l1.op = "run_level1"
    /\ l1.state = "canonical_scope"
    /\ LET out == canonical_scope_findings(l1.counter, l1.findings, l1.repo,
                                           get(l1.rules, "canonical_scope", <<>>))
       IN l1' = [l1 EXCEPT !.state = "top_level_dirs", !.counter = out.counts,
                           !.findings = out.findings]
    /\ UNCHANGED <<mainVars, rr, sv, l3, l2, rp, xt>>

\* 2. findings.extend(_check_top_level_dirs(...))
Level1TopLevelDirs ==
    /\ l1.op = "run_level1"
    /\ l1.state = "top_level_dirs"
    /\ LET out == top_level_dirs(l1.counter, l1.findings, l1.repo, l1.other_dirs)
       IN l1' = [l1 EXCEPT !.state = "validator_inventory", !.counter = out.counts,
                           !.findings = out.findings]
    /\ UNCHANGED <<mainVars, rr, sv, l3, l2, rp, xt>>

\* 3. findings.extend(_check_validator_inventory(...))
Level1ValidatorInventory ==
    /\ l1.op = "run_level1"
    /\ l1.state = "validator_inventory"
    /\ LET out == validator_inventory(l1.counter, l1.findings, l1.actual_files, l1.registered)
       IN l1' = [l1 EXCEPT !.state = "schema_inventory", !.counter = out.counts,
                           !.findings = out.findings]
    /\ UNCHANGED <<mainVars, rr, sv, l3, l2, rp, xt>>

\* 4. findings.extend(_check_schema_inventory(...))
Level1SchemaInventory ==
    /\ l1.op = "run_level1"
    /\ l1.state = "schema_inventory"
    /\ LET out == schema_inventory(l1.counter, l1.findings, <<"schemas", "taxonomies">>,
                                   l1.dir_state)
       IN l1' = [l1 EXCEPT !.state = "stale_paths", !.counter = out.counts,
                           !.findings = out.findings]
    /\ UNCHANGED <<mainVars, rr, sv, l3, l2, rp, xt>>

\* 5. findings.extend(_check_stale_paths(...)); a KeyError leaves run_level1
Level1StalePaths ==
    /\ l1.op = "run_level1"
    /\ l1.state = "stale_paths"
    /\ LET out == stale_paths(l1.counter, l1.findings, l1.repo, l1.rules,
                              stale_files_to_scan(l1.repo, l1.rules))
       IN IF out.raised
          THEN l1' = [l1 EXCEPT !.state = "raised", !.counter = out.counts]
          ELSE l1' = [l1 EXCEPT !.state = "repo_contract", !.counter = out.counts,
                                !.findings = out.findings]
    /\ UNCHANGED <<mainVars, rr, sv, l3, l2, rp, xt>>

\* run_level1 is called again on the same repository and rules
Level1RunAgain ==
    /\ l1.op = "run_level1"
    /\ l1.state = "done"
    /\ "run" \in DOMAIN l1
    /\ l1.run = 1
    /\ l1' = [l1 EXCEPT !.state = "canonical_scope", !.run = 2,
                        !.first = l1.findings, !.findings = <<>>,
                        !.counter = second_run_counter(l1.fresh, l1.counter)]
    /\ UNCHANGED <<mainVars, rr, sv, l3, l2, rp, xt>>

NextLevel1 ==
    \/ Level1CanonicalScope
    \/ Level1TopLevelDirs
    \/ Level1ValidatorInventory
    \/ Level1SchemaInventory
    \/ Level1StalePaths
    \/ RunRepoContract
    \/ RunReadmeRepoCard
    \/ ReturnLevel1
    \/ Level1RunAgain

SpecLevel1 == InitLevel1 /\ [][NextLevel1]_vars

(***************************************************************************)
(* validators/run_all.py: main runs the requested validators in turn       *)
(***************************************************************************)
MaxTargets == 3

\* a part of the registry, and a name that is not in it
AVAILABLE_VALIDATORS ==
    [houston_docmeta |-> "check_houston_docmeta",
     houston_features |-> "check_houston_features",
     repo_contract |-> "check_repo_contract"]

TargetNames == DOMAIN AVAILABLE_VALIDATORS \cup {"houston_bogus"}

\* the statuses a validator's cli returns
Statuses == 0..2

\* unknown = [name for name in args.targets if name not in AVAILABLE_VALIDATORS]
unknown_targets(targets) == SelectSeq(targets, LAMBDA t : t \notin DOMAIN AVAILABLE_VALIDATORS)

stops_never(result) == FALSE

\* if result != 0: return result
stops(result) == result # 0

InitRunAll ==
    /\ MainIdle
    /\ rr = Idle
    /\ sv = Idle
    /\ l3 = Idle
    /\ l1 = Idle
    /\ l2 = Idle
    /\ rp = Idle
    /\ \E n \in 0..MaxTargets : \E targets \in [1..n -> TargetNames] :
         xt = [state |-> "parsed", op |-> "run_all", targets |-> targets,
               i |-> 1, called |-> <<>>, returned |-> 0]

\* the check of the requested names before the loop
RunAllUnknown ==
    /\ xt.op = "run_all"
    /\ xt.state = "parsed"
    /\ IF unknown_targets(xt.targets) # <<>>
       THEN xt' = [xt EXCEPT !.state = "done", !.returned = 2]
       ELSE xt' = [xt EXCEPT !.state = "loop"]
    /\ UNCHANGED <<mainVars, rr, sv, l3, l1, l2, rp>>

\* one iteration of the loop: the validator is loaded and called
RunAllCall ==
    /\ xt.op = "run_all"
    /\ xt.state = "loop"
    /\ xt.i <= Len(xt.targets)
    /\ \E result \in Statuses :
         LET target == xt.targets[xt.i]
             call == [target |-> target, module_name |-> AVAILABLE_VALIDATORS[target],
                      result |-> result]
         IN IF stops(result)
            THEN xt' = [xt EXCEPT !.state = "done", !.returned = result,
                                  !.called = Append(@, call)]
            ELSE xt' = [xt EXCEPT !.i = @ + 1, !.called = Append(@, call)]
    /\ UNCHANGED <<mainVars, rr, sv, l3, l1, l2, rp>>

\* the loop is over: return 0
RunAllReturn ==
    /\ xt.op = "run_all"
    /\ xt.state = "loop"
    /\ xt.i > Len(xt.targets)
    /\ xt' = [xt EXCEPT !.state = "done", !.returned = 0]
    /\ UNCHANGED <<mainVars, rr, sv, l3, l1, l2, rp>>

NextRunAll ==
    \/ RunAllUnknown
    \/ RunAllCall
    \/ RunAllReturn

SpecRunAll == InitRunAll /\ [][NextRunAll]_vars

(***************************************************************************)
(* extractors.py: extract_internal_links, one line of the file per step    *)
(***************************************************************************)
MaxDocLines == 3

\* the lines a scanned document is made of
FenceLines ==
    { <<Backtick, Backtick, Backtick>>,
      <<" ", " ">> \o <<"~", "~", "~">> \o <<"p", "y">> }

LinkLines ==
    { <<"p", "l", "a", "i", "n", " ", "t", "e", "x", "t">>, <<"s", "e", "e", " ", "[", "a", "]", "(", "b", ".", "m", "d", ")">>, <<"[", "a", "]", "(", "x", ".", "m", "d", "#", "s", ")", " ", "[", "b", "]", "(", "#", "c", ")">>, <<"[", "e", "]", "(", "h", "t", "t", "p", ":", "/", "/", "x", ")", " ", "[", "m", "]", "(", "m", "a", "i", "l", "t", "o", ":", "y", ")">>, <<"[", "h", "]", "(", "h", "t", "t", "p", "s", ":", "/", "/", "x", ")", "[", "i", "]", "(", "/", "r", ".", "m", "d", ")">>,
      <<Backtick, Backtick, Backtick>> \o <<"s", "e", "e", " ", "[", "a", "]", "(", "b", ".", "m", "d", ")">> }

DocLines == FenceLines \cup LinkLines

InitFence ==
    /\ MainIdle
    /\ rr = Idle
    /\ sv = Idle
    /\ l3 = Idle
    /\ l1 = Idle
    /\ l2 = Idle
    /\ rp = Idle
    /\ \E n \in 0..MaxDocLines : \E lines \in [1..n -> DocLines] :
         xt = [state |-> "scan", op |-> "extract_internal_links", lines |-> lines,
               line_num |-> 1, in_code_block |-> FALSE, links |-> <<>>]

\* one iteration of `for line_num, line in enumerate(content.splitlines(), 1)`
ScanLineForLinks ==
    /\ xt.op = "extract_internal_links"
    /\ xt.state = "scan"
    /\ xt.line_num <= Len(xt.lines)
    /\ LET line == xt.lines[xt.line_num]
       IN IF is_fence(strip(line))
          THEN xt' = [xt EXCEPT !.line_num = @ + 1, !.in_code_block = ~@]
          ELSE IF xt.in_code_block
          THEN xt' = [xt EXCEPT !.line_num = @ + 1]
          ELSE xt' = [xt EXCEPT !.line_num = @ + 1,
                                !.links = @ \o line_links(line, xt.line_num, <<>>)]
    /\ UNCHANGED <<mainVars, rr, sv, l3, l1, l2, rp>>

\* return links
ReturnInternalLinks ==
    /\ xt.op = "extract_internal_links"
    /\ xt.state = "scan"
    /\ xt.line_num > Len(xt.lines)
    /\ xt' = [xt EXCEPT !.state = "done"]
    /\ UNCHANGED <<mainVars, rr, sv, l3, l1, l2, rp>>

NextFence == ScanLineForLinks \/ ReturnInternalLinks

SpecFence == InitFence /\ [][NextFence]_vars

(***************************************************************************)
(* level3.py: _build_reference_graph, called on its own, for scopes that   *)
(* may list a file twice                                                   *)
(***************************************************************************)
InitGraph ==
    /\ MainIdle
    /\ rr = Idle
    /\ sv = Idle
    /\ CallsIdle
    /\ \E s \in LinkScopeChoices, e \in ExcludesChoices,
          readme \in ReadmeDocs, guide \in GuideDocs, others \in BOOLEAN :
         l3 = [state |-> "call",
               repo |-> [readme |-> readme, guide |-> guide, others |-> others],
               rules |-> [canonical_scope |-> s, excludes |-> e],
               files_to_scan |-> <<>>,
               graph |-> EmptyGraph,
               all_md_files |-> <<>>,
               age_days |-> [f \in Elements(MdFiles) |-> -1],
               counter |-> FindingCounter_init,
               findings |-> <<>>]

NextGraph ==
    \/ BuildFilesToScan
    \/ ScanFile
    \/ StartOrphanScan

SpecGraph == InitGraph /\ [][NextGraph]_vars

(***************************************************************************)
(* level1.py: _check_stale_paths for scopes that may list a file twice     *)
(***************************************************************************)
\* canonical_scope choices, one of which names README.md exactly and by a glob
OverlapScopeChoices == StaleScopeChoices \cup { <<README_md, <<"*", ".", "m", "d">> >> }

OverlapReadmeDocs == StaleReadmeDocs \cup { << <<"[", "o", "]", "(", " ", "o", "l", "d", ")">> >> }

InitStaleScan ==
    /\ MainIdle
    /\ rr = Idle
    /\ sv = Idle
    /\ l3 = Idle
    /\ l2 = Idle
    /\ rp = Idle
    /\ xt = Idle
    /\ \E scope \in OverlapScopeChoices, e \in ExcludesChoices,
          sp \in SeqsUpTo(StaleRuleChoices, MaxStaleRules),
          readme \in OverlapReadmeDocs, guide \in StaleGuideDocs, readable \in BOOLEAN :
         l1 = [state |-> "call", op |-> "_check_stale_paths",
               repo |-> [readme |-> readme, guide |-> guide, others |-> FALSE,
                         guide_readable |-> readable],
               rules |-> [canonical_scope |-> scope, excludes |-> e,
                          stale_path_patterns |-> sp],
               files_to_scan |-> <<>>,
               counter |-> FindingCounter_init,
               findings |-> <<>>]

SpecStaleScan == InitStaleScan /\ [][NextStale]_vars

(***************************************************************************)
(* Claims about one run of main()                                          *)
(***************************************************************************)
IdsUnique == Cardinality({findings[i].id : i \in 1..Len(findings)}) = Len(findings)

IdNamesLevel(f) == f.id.prefix = "DRIFT-L" /\ f.id.level = f.level_detected

DigitsValue(ds) ==
    IF Len(ds) = 3 THEN 100 * ds[1] + 10 * ds[2] + ds[3]
    ELSE 1000 * ds[1] + 100 * ds[2] + 10 * ds[3] + ds[4]

\* n in decimal, zero-padded to three digits (n < 10000)
Padded3(n) ==
    IF n <= 999 THEN <<n \div 100, (n \div 10) % 10, n % 10>>
    ELSE <<n \div 1000, (n \div 100) % 10, (n \div 10) % 10, n % 10>>

Prefix123(xs) == Len(xs) <= 3 /\ \A i \in 1..Len(xs) : xs[i] = i

\* C2: Level 1 always runs, Level k runs iff k <= the requested level, in the
\* order 1, 2, 3; the findings list only grows at its end (it is never
\* re-sorted), holds findings of levels <= the requested level only, and
\* never holds a finding of a higher level before one of a lower level.
\* A run that ends with exit code 2 or by an uncaught exception returns no
\* findings list.
C2_LevelsInOrder ==
    /\ [](/\ Prefix123(ran)
          /\ (pc \notin {"idle", "start", "level1"} /\ exit_code # 2 => Len(ran) >= 1)
          /\ (pc \in {"report", "exit", "done"} /\ exit_code # 2
                => Len(ran) = args.level)
          /\ \A i \in 1..Len(findings) :
               /\ findings[i].level_detected <= Len(ran)
               /\ findings[i].level_detected <= args.level
               /\ (i > 1 => findings[i - 1].level_detected <= findings[i].level_detected))
    /\ [][/\ Len(findings') >= Len(findings)
          /\ \A i \in 1..Len(findings) : findings'[i] = findings[i]]_vars

\* a finished level-3 run whose list holds findings of all three levels, with
\* a MINOR finding before a CRITICAL one
C2_Witness ==
    /\ pc = "done"
    /\ args.level = 3
    /\ \A k \in 1..3 : \E i \in 1..Len(findings) : findings[i].level_detected = k
    /\ \E i \in 1..Len(findings) : \E j \in (i + 1)..Len(findings) :
         findings[i].severity = "MINOR" /\ findings[j].severity = "CRITICAL"

\* C3: the exit code is 2 iff the repository root is no directory (then no
\* level runs and no report is written); otherwise it is 1 iff --strict is
\* set and the findings hold a CRITICAL one; otherwise it is 0.
C3_ExitCode ==
    pc \in {"done", "raised"} =>
        /\ (exit_code = 2 <=> ~args.repo_is_dir)
        /\ (~args.repo_is_dir => ran = <<>> /\ written = {})
        /\ (args.repo_is_dir =>
              /\ exit_code \in {0, 1}
              /\ (exit_code = 1 <=> args.strict /\ has_critical(findings)))

\* C5: in a run whose rules file (the --rules file, or without --rules the
\* repository's 30_config/drift_rules.yaml) is missing or unparseable, the
\* checkers are handed what resolve_rules yields, never an empty rule set.
C5_RulesFallThrough ==
    LET p == IF args.rules_given THEN env.cli ELSE env.repo
    IN pc \notin {"idle", "start"} /\ exit_code # 2
       /\ ((args.rules_given /\ p.status \in {"missing", "dir", "garbled"})
           \/ (~args.rules_given /\ p.status = "missing"))
       => /\ rules = resolve_rules(args.rules_given, env.cli, env.repo,
                                   env.has_yaml, FALSE).value
          /\ rules.keys # {}
          /\ rules.canonical_scope # <<>>

CountOf(sev) == Cardinality({i \in 1..Len(findings) : findings[i].severity = sev})

\* C6: the summary block read back from the JSON report has
\* critical/major/minor/info equal to the report's counts by severity, total
\* equal to the number of findings, and the four counts add up to total.
C6_JsonSummaryRoundTrip ==
    "json" \in written =>
        /\ json_summary.critical = CountOf("CRITICAL")
        /\ json_summary.major = CountOf("MAJOR")
        /\ json_summary.minor = CountOf("MINOR")
        /\ json_summary.info = CountOf("INFO")
        /\ json_summary.total = Len(findings)
        /\ json_summary.critical + json_summary.major + json_summary.minor
             + json_summary.info = json_summary.total

\* a JSON report of a run with a four-digit total and findings of each severity
C6_Witness ==
    /\ "json" \in written
    /\ json_summary.total >= 1000
    /\ json_summary.critical >= 1
    /\ json_summary.major >= 1
    /\ json_summary.minor >= 1
    /\ json_summary.info >= 1

(***************************************************************************)
(* Claims about resolve_rules()                                            *)
(***************************************************************************)
Loads(p, has_yaml) == has_yaml /\ p.status = "mapping"

\* C4: resolve_rules returns the first source that loads, in the order
\* explicit path, repository file, universal defaults, and never raises.
C4_ResolveOrder ==
    rr.state = "done" =>
        /\ rr.result.outcome = "return"
        /\ rr.result.value =
             IF rr.cli_given /\ Loads(rr.cli, rr.has_yaml)
             THEN FileRules("cli_rules_path", rr.cli)
             ELSE IF Loads(rr.repo, rr.has_yaml)
             THEN FileRules("repo_rules_path", rr.repo)
             ELSE universal_rules

(***************************************************************************)
(* Claims about Severity                                                   *)
(***************************************************************************)
Rank(sev) ==
    CASE sev = "INFO" -> 0 [] sev = "MINOR" -> 1 [] sev = "MAJOR" -> 2
      [] sev = "CRITICAL" -> 3

IsPermutation(xs, ys) ==
    /\ Len(xs) = Len(ys)
    /\ \A v \in Severity :
         Cardinality({i \in 1..Len(xs) : xs[i] = v})
           = Cardinality({i \in 1..Len(ys) : ys[i] = v})

\* C7: Severity has exactly the four values; __lt__ is the strict total order
\* INFO < MINOR < MAJOR < CRITICAL; sorting a list of severities yields its
\* elements in that order, and sorting the result again changes nothing.
C7_SeverityOrder ==
    /\ Severity = {"INFO", "MINOR", "MAJOR", "CRITICAL"}
    /\ Cardinality(Severity) = 4
    /\ \A a \in Severity, b \in Severity :
         /\ (Severity_lt(a, b) <=> Rank(a) < Rank(b))
         /\ ~Severity_lt(a, a)
         /\ (a # b => Severity_lt(a, b) \/ Severity_lt(b, a))
         /\ \A c \in Severity :
              Severity_lt(a, b) /\ Severity_lt(b, c) => Severity_lt(a, c)
    /\ (sv.state \in {"sorted", "resorted"} =>
          /\ IsPermutation(sv.input, sv.once)
          /\ \A i \in 1..(Len(sv.once) - 1) : Rank(sv.once[i]) <= Rank(sv.once[i + 1]))
    /\ (sv.state = "resorted" => sv.twice = sv.once)

\* a list of three different severities, out of order, sorted twice
C7_Witness ==
    /\ sv.state = "resorted"
    /\ sv.input = <<"CRITICAL", "INFO", "MAJOR">>
    /\ sv.twice = <<"INFO", "MAJOR", "CRITICAL">>

(***************************************************************************)
(* Claims about Level 3                                                    *)
(***************************************************************************)
\* the canonical-scope files that are scanned: named by canonical_scope
\* (by a glob or exactly) and matched by no excludes pattern
IsCanonical(f) ==
    LET scope == get(l3.rules, "canonical_scope", <<>>)
        excludes == get(l3.rules, "excludes", <<>>)
    IN /\ \E n \in 1..Len(scope) :
            IF "*" \in Elements(scope[n])
            THEN glob_match(path_parts(scope[n]), path_parts(f))
            ELSE scope[n] = f
       /\ \A n \in 1..Len(excludes) : ~fnmatch(f, excludes[n])

\* g holds a markdown link whose target, resolved as the link extractor
\* resolves it (against g's directory, or against the root when it starts
\* with '/'), is f
LinksTo(g, f) ==
    LET links == extract_internal_links(l3.repo, g)
    IN \E n \in 1..Len(links) : resolve(links[n].resolved) = path_parts(f)

\* g holds a path reference that is f
MentionsPath(g, f) ==
    LET refs == extract_path_references(l3.repo, g)
    IN \E n \in 1..Len(refs) : refs[n].path = f

\* f has an inbound reference from a scanned canonical file
Referenced(f) ==
    \E g \in Elements(MdFiles) : IsCanonical(g) /\ (LinksTo(g, f) \/ MentionsPath(g, f))

\* f matches a candidate class and none of that class's excludes
MatchesSomeClass(f) ==
    LET classes == get(get(l3.rules, "archive_candidates", NoEntries),
                       "candidate_classes", <<>>)
    IN \E n \in 1..Len(classes) :
         /\ fnmatch(f, get(classes[n], "path_pattern", <<>>))
         /\ \A e \in Elements(get(classes[n], "exclude", <<>>)) : ~fnmatch(f, e)

\* f matches a protected_from_archive pattern
MatchesProtected(f) ==
    \E p \in Elements(get(l3.rules, "protected_from_archive", <<>>)) : fnmatch(f, p)

\* the configured age threshold, 90 days when none is configured
Threshold ==
    LET archive == get(l3.rules, "archive_candidates", NoEntries)
    IN IF "min_age_days" \in DOMAIN archive THEN archive.min_age_days ELSE 90

\* the positions of the orphan_candidate findings about f
OrphanFindings(f) ==
    {i \in 1..Len(l3.findings) :
        l3.findings[i].category = "orphan_candidate" /\ l3.findings[i].file = f}

\* C8: when Level 3 has returned, every markdown file without inbound
\* reference that matches a candidate class (and none of its excludes) and no
\* protected pattern has exactly one orphan_candidate finding; it is INFO,
\* 'high' without review when the file's age is at least the threshold
\* (configured, else 90), 'low' with review when the age is below it.
C8_OrphanCandidateReported ==
    l3.state = "done" =>
      \A f \in Elements(MdFiles) :
        (~Referenced(f) /\ MatchesSomeClass(f) /\ ~MatchesProtected(f)) =>
          /\ Cardinality(OrphanFindings(f)) = 1
          /\ \A i \in OrphanFindings(f) :
               /\ l3.findings[i].severity = "INFO"
               /\ l3.age_days[f] >= Threshold =>
                    (l3.findings[i].confidence = "high" /\ ~l3.findings[i].requires_review)
               /\ l3.age_days[f] < Threshold =>
                    (l3.findings[i].confidence = "low" /\ l3.findings[i].requires_review)

\* a finished call that reported one orphan at the default threshold with
\* high confidence and another, younger one with low confidence
C8_Witness ==
    /\ l3.state = "done"
    /\ Threshold = 90
    /\ \E f \in Elements(MdFiles), g \in Elements(MdFiles) :
         /\ ~Referenced(f) /\ MatchesSomeClass(f) /\ ~MatchesProtected(f)
         /\ ~Referenced(g) /\ MatchesSomeClass(g) /\ ~MatchesProtected(g)
         /\ l3.age_days[f] = 90 /\ l3.age_days[g] = 89
         /\ \E i \in OrphanFindings(f) : l3.findings[i].confidence = "high"
         /\ \E i \in OrphanFindings(g) : l3.findings[i].confidence = "low"

\* C9: in every state of a Level 3 call, no orphan_candidate finding is
\* about a file that matches a protected_from_archive pattern, and none is
\* about a file that matches no candidate class.
C9_ProtectedNeverFlagged ==
    \A i \in 1..Len(l3.findings) :
      l3.findings[i].category = "orphan_candidate" =>
        /\ ~MatchesProtected(l3.findings[i].file)
        /\ MatchesSomeClass(l3.findings[i].file)

\* a finished call in which a protected file that matches a candidate class
\* and has no inbound reference went unreported, a file that matches no
\* class went unreported, and some other file was reported
C9_Witness ==
    /\ l3.state = "done"
    /\ \E f \in Elements(MdFiles) :
         /\ MatchesProtected(f) /\ MatchesSomeClass(f) /\ ~Referenced(f)
         /\ OrphanFindings(f) = {}
    /\ \E f \in Elements(MdFiles) :
         /\ ~MatchesProtected(f) /\ ~MatchesSomeClass(f) /\ ~Referenced(f)
         /\ OrphanFindings(f) = {}
    /\ \E f \in Elements(MdFiles) : OrphanFindings(f) # {}

\* C10: a markdown file referenced from a scanned canonical file, by a
\* link relative to that file, by a link with a leading '/', or by a path
\* reference, has no orphan_candidate finding.
C10_ReferencedNeverOrphan ==
    \A f \in Elements(MdFiles) : Referenced(f) => OrphanFindings(f) = {}

(***************************************************************************)
(* Claims about Level 2's link validation                                  *)
(***************************************************************************)
\* f is named by canonical_scope of rules r and matched by no excludes pattern
CanonicalIn(r, f) ==
    LET scope == get(r, "canonical_scope", <<>>)
        excludes == get(r, "excludes", <<>>)
    IN /\ \E n \in 1..Len(scope) :
            IF "*" \in Elements(scope[n])
            THEN glob_match(path_parts(scope[n]), path_parts(f))
            ELSE scope[n] = f
       /\ \A n \in 1..Len(excludes) : ~fnmatch(f, excludes[n])

\* the positions of the broken_link findings about the link at `line` of g
\* with target `target`
BrokenLinkFindings(g, line, target) ==
    {i \in 1..Len(l2.findings) :
        /\ l2.findings[i].category = "broken_link"
        /\ l2.findings[i].file = g
        /\ l2.findings[i].line = line
        /\ l2.findings[i].message = target}

\* C11: when the link check has returned, every link of a scanned canonical
\* file whose target is missing has exactly one broken_link finding, which
\* is CRITICAL and carries the link's line and column; a link whose target
\* exists has none.
C11_OneFindingPerBrokenLink ==
    (l2.state = "done" /\ l2.op = "_check_internal_links") =>
      \A g \in Elements(MdFiles) :
        CanonicalIn(l2.rules, g) =>
          LET links == extract_internal_links(l2.repo, g)
          IN \A n \in 1..Len(links) :
               LET hits == BrokenLinkFindings(g, links[n].line, links[n].target)
               IN IF is_valid(l2.repo, links[n]) THEN hits = {}
                  ELSE /\ Cardinality(hits) = 1
                       /\ \A i \in hits :
                            /\ l2.findings[i].severity = "CRITICAL"
                            /\ "column" \in DOMAIN l2.findings[i]
                            /\ l2.findings[i].column = links[n].column

(***************************************************************************)
(* Claims about Level 2's validator-inventory comparison                   *)
(***************************************************************************)
ComparisonDone ==
    l2.state = "done" /\ l2.op = "_check_validator_consistency" /\ l2.ground_truth # {}

\* the positions of the doc_contradiction findings of a document that carry
\* the context key `key`
Contradictions(doc, key) ==
    {i \in 1..Len(l2.findings) :
        /\ l2.findings[i].category = "doc_contradiction"
        /\ l2.findings[i].file = doc
        /\ key \in DOMAIN l2.findings[i].context}

\* the findings about extras: one MAJOR finding naming C \ G when it is not
\* empty, none otherwise
ExtrasReported(doc) ==
    LET extra == l2.on_disk[doc] \ l2.ground_truth
    IN IF extra = {} THEN Contradictions(doc, "extra") = {}
       ELSE /\ Cardinality(Contradictions(doc, "extra")) = 1
            /\ \A i \in Contradictions(doc, "extra") :
                 l2.findings[i].severity = "MAJOR" /\ l2.findings[i].context.extra = extra

\* C12 as stated: for every compared document, a non-empty G \ C gives one
\* doc_contradiction finding naming G \ C, INFO below 20% of G and MAJOR above,
\* MAJOR for PROJECT_PRIMER.md with three or more missing; a non-empty C \ G
\* gives one further MAJOR finding naming the extras.
C12_OmissionsAlwaysReported ==
    ComparisonDone =>
      \A doc \in DOMAIN l2.on_disk :
        LET missing == l2.ground_truth \ l2.on_disk[doc]
            m == Cardinality(missing)
            g == Cardinality(l2.ground_truth)
            hits == Contradictions(doc, "missing")
        IN /\ ExtrasReported(doc)
           /\ IF missing = {} THEN hits = {}
              ELSE /\ Cardinality(hits) = 1
                   /\ \A i \in hits :
                        /\ l2.findings[i].context.missing = missing
                        /\ (doc = "PROJECT_PRIMER.md" /\ m >= 3) => l2.findings[i].severity = "MAJOR"
                        /\ 5 * m > g => l2.findings[i].severity = "MAJOR"
                        /\ (5 * m < g /\ ~(doc = "PROJECT_PRIMER.md" /\ m >= 3)) =>
                             l2.findings[i].severity = "INFO"

\* C12 amended: the omission finding is made only for a document that claims
\* at least one validator; it is INFO when the missing ones are at most 20% of
\* G and MAJOR when they are more, and MAJOR for PROJECT_PRIMER.md with three
\* or more missing; a document that claims none has no omission finding.
C12_OmissionsOfClaimingDocs ==
    ComparisonDone =>
      \A doc \in DOMAIN l2.on_disk :
        LET missing == l2.ground_truth \ l2.on_disk[doc]
            m == Cardinality(missing)
            g == Cardinality(l2.ground_truth)
            hits == Contradictions(doc, "missing")
        IN /\ ExtrasReported(doc)
           /\ IF missing = {} \/ l2.on_disk[doc] = {} THEN hits = {}
              ELSE /\ Cardinality(hits) = 1
                   /\ \A i \in hits :
                        /\ l2.findings[i].context.missing = missing
                        /\ l2.findings[i].severity =
                             IF (doc = "PROJECT_PRIMER.md" /\ m >= 3) \/ 5 * m > g
                             THEN "MAJOR" ELSE "INFO"

\* a finished comparison in which README.md omits less than 20% (INFO), the
\* primer omits three that are at most 20% (MAJOR all the same) and a
\* document claims an unregistered validator
C12_Witness ==
    /\ ComparisonDone
    /\ {"README.md", "PROJECT_PRIMER.md"} \subseteq DOMAIN l2.on_disk
    /\ \E i \in Contradictions("README.md", "missing") : l2.findings[i].severity = "INFO"
    /\ \E i \in Contradictions("PROJECT_PRIMER.md", "missing") :
         /\ l2.findings[i].severity = "MAJOR"
         /\ 5 * Cardinality(l2.findings[i].context.missing) <= Cardinality(l2.ground_truth)
    /\ \E doc \in DOMAIN l2.on_disk : Contradictions(doc, "extra") # {}

(***************************************************************************)
(* Claims about Level 2's generator-staleness check                        *)
(***************************************************************************)
\* the positions of the hash-staleness findings: generator_drift findings
\* that cite the two hashes
HashStaleness ==
    {i \in 1..Len(l2.findings) :
        /\ l2.findings[i].category = "generator_drift"
        /\ "primer_sha" \in DOMAIN l2.findings[i].context}

\* C13: when the generator check has returned for an existing primer: if the
\* recorded hash and HEAD are both known and differ there is exactly one
\* hash-staleness finding, INFO when the commit distance is known and at most
\* allowed_sha_lag_commits (default 0) and MAJOR otherwise; if the hashes are
\* equal or one is unknown there is none.
C13_OneStalenessFinding ==
    (l2.state = "done" /\ l2.op = "_check_generator_drift" /\ l2.primer_exists) =>
      LET allowed == IF "allowed_sha_lag_commits" \in DOMAIN l2.generator_rules
                     THEN l2.generator_rules.allowed_sha_lag_commits ELSE 0
      IN IF l2.recorded # NoSha /\ l2.head # NoSha /\ l2.recorded # l2.head
         THEN /\ Cardinality(HashStaleness) = 1
              /\ \A i \in HashStaleness :
                   l2.findings[i].severity =
                     IF l2.lag.known /\ l2.lag.commits <= allowed THEN "INFO" ELSE "MAJOR"
         ELSE HashStaleness = {}

\* a finished check with distance 2 and allowed lag 3 that made one INFO
\* finding (together with a directory-map finding)
C13_Witness ==
    /\ l2.state = "done" /\ l2.op = "_check_generator_drift"
    /\ l2.lag = Lag(2)
    /\ l2.generator_rules = [allowed_sha_lag_commits |-> 3]
    /\ \E i \in HashStaleness : l2.findings[i].severity = "INFO"
    /\ Len(l2.findings) = 2

(***************************************************************************)
(* Claims about Level 1's stale-path check                                 *)
(***************************************************************************)
\* the stale_path findings made for rule number r in line n of file f
StaleFindings(r, f, n) ==
    LET rule == l1.rules.stale_path_patterns[r]
    IN {i \in 1..Len(l1.findings) :
          /\ l1.findings[i].category = "stale_path"
          /\ l1.findings[i].file = f
          /\ l1.findings[i].line = n
          /\ l1.findings[i].message = stale_message(rule)
          /\ l1.findings[i].context.replacement = get(rule, "replacement", <<>>)}

\* the rule has check_exists set and its replacement, taken from the root
\* without trailing slashes, is neither a file nor a directory there
ReplacementMissing(rule) ==
    /\ "check_exists" \in DOMAIN rule /\ rule.check_exists
    /\ "replacement" \in DOMAIN rule
    /\ rstrip(rule.replacement, {"/"}) # <<>>
    /\ rstrip(rule.replacement, {"/"}) \notin
         Elements(repo_files(l1.repo)) \cup Elements(repo_dirs(l1.repo))

\* the occurrences of the rule's pattern in the line that count: all of
\* them, or those in a path context when the rule requires it
CountedMatches(rule, line) ==
    LET ms == finditer_literal(line, rule.pattern, 1)
    IN {k \in 1..Len(ms) :
          get(rule, "require_path_context", FALSE) =>
            check_path_context(line, ms[k].start, ms[k].end)}

\* C14: in every state of the stale-path check no finding comes from a rule
\* with check_exists whose replacement is missing, and when the check has
\* returned every other rule with a pattern has, in every line of every
\* scanned readable file, one finding per counted match.
C14_MissingReplacementSkipsRule ==
    l1.op = "_check_stale_paths" =>
      LET sp == l1.rules.stale_path_patterns
      IN /\ \A r \in 1..Len(sp) :
              ReplacementMissing(sp[r]) =>
                \A i \in 1..Len(l1.findings) :
                  l1.findings[i].context.replacement # sp[r].replacement
         /\ l1.state = "done" =>
              \A r \in 1..Len(sp) :
                ("pattern" \in DOMAIN sp[r] /\ ~ReplacementMissing(sp[r])
                 /\ \A q \in 1..Len(sp) : (q # r => sp[q] # sp[r])) =>
                  \A f \in Elements(MdFiles) :
                    (CanonicalIn(l1.rules, f) /\ readable_file(l1.repo, f)) =>
                      \A n \in 1..Len(content_of(l1.repo, f)) :
                        Cardinality(StaleFindings(r, f, n))
                          = Cardinality(CountedMatches(sp[r], content_of(l1.repo, f)[n]))

\* a finished check in which a rule with a missing replacement was skipped
\* although its pattern occurs twice in a scanned line, and another rule
\* made findings in the same file
C14_Witness ==
    /\ l1.state = "done" /\ l1.op = "_check_stale_paths"
    /\ \E r \in 1..Len(l1.rules.stale_path_patterns) :
         LET rule == l1.rules.stale_path_patterns[r]
         IN /\ ReplacementMissing(rule)
            /\ CanonicalIn(l1.rules, README_md)
            /\ \E n \in 1..Len(l1.repo.readme) :
                 Len(finditer_literal(l1.repo.readme[n], rule.pattern, 1)) = 2
    /\ \E i \in 1..Len(l1.findings) : l1.findings[i].file = README_md

(***************************************************************************)
(* Claims about Level 3's misplaced artifacts                              *)
(***************************************************************************)
\* the file lies directly in validators/
DirectlyInValidators(f) ==
    /\ Len(f) > 11
    /\ SubSeq(f, 1, 11) = <<"v", "a", "l", "i", "d", "a", "t", "o", "r", "s", "/">>
    /\ "/" \notin Elements(SubSeq(f, 12, Len(f)))

\* the file's name ends in .py, or is one of the names allowed in validators/
PythonOrAllowed(f) ==
    LET name == SubSeq(f, 12, Len(f))
    IN \/ (Len(name) > 3 /\ SubSeq(name, Len(name) - 2, Len(name)) = <<".", "p", "y">>)
       \/ name \in { <<"R", "E", "A", "D", "M", "E", ".", "m", "d">>, <<"_", "_", "i", "n", "i", "t", "_", "_", ".", "p", "y">>, <<"_", "_", "p", "y", "c", "a", "c", "h", "e", "_", "_">> }

\* the misplaced_artifact findings that name the file
MisplacedFindings(f) ==
    {i \in 1..Len(l3.findings) :
       l3.findings[i].category = "misplaced_artifact" /\ l3.findings[i].file = f}

\* C15: when run_level3 has returned, every file directly in validators/
\* that is neither Python nor allow-listed nor protected has exactly one
\* misplaced_artifact finding, of severity MINOR, and the Python,
\* allow-listed and protected files there have none.
C15_MisplacedInValidators ==
    l3.state = "done" =>
      \A f \in Elements(repo_files(l3.repo)) :
        DirectlyInValidators(f) =>
          IF PythonOrAllowed(f) \/ MatchesProtected(f)
          THEN MisplacedFindings(f) = {}
          ELSE /\ Cardinality(MisplacedFindings(f)) = 1
               /\ \A i \in MisplacedFindings(f) : l3.findings[i].severity = "MINOR"

\* a finished run over a validators/ directory that holds a Python file, an
\* allow-listed file, a protected file and a reported one
C15_Witness ==
    /\ l3.state = "done"
    /\ \E a, b, c, d \in Elements(repo_files(l3.repo)) :
         /\ DirectlyInValidators(a) /\ DirectlyInValidators(b)
         /\ DirectlyInValidators(c) /\ DirectlyInValidators(d)
         /\ PythonOrAllowed(a) /\ a = <<"v", "a", "l", "i", "d", "a", "t", "o", "r", "s", "/", "c", "h", "e", "c", "k", ".", "p", "y">>
         /\ PythonOrAllowed(b) /\ b = <<"v", "a", "l", "i", "d", "a", "t", "o", "r", "s", "/", "R", "E", "A", "D", "M", "E", ".", "m", "d">>
         /\ MatchesProtected(c) /\ ~PythonOrAllowed(c)
         /\ ~MatchesProtected(d) /\ ~PythonOrAllowed(d)
         /\ Cardinality(MisplacedFindings(d)) = 1

(***************************************************************************)
(* Claims about the report files                                           *)
(***************************************************************************)
\* the suffix of the first free report name with the extension (0 is the
\* name without suffix)
LowestFree(ext) ==
    CHOOSE n \in 0..(MaxSuffix + MaxWrites) :
      /\ rp.files[<<ext, n>>] = 0
      /\ \A k \in 0..(n - 1) : rp.files[<<ext, k>>] # 0

\* a step of a report writer leaves every existing file as it is and
\* creates at most the first free name of the extension being written
ReportStepKeepsFiles ==
    /\ rp.state # "idle"
    /\ rp'.state # "idle"
    /\ \A name \in ReportNames :
         /\ rp.files[name] # 0 => rp'.files[name] = rp.files[name]
         /\ (rp.files[name] = 0 /\ rp'.files[name] # 0) =>
              name = <<rp.ext, LowestFree(rp.ext)>>

\* C16: every step of a sequence of report writes keeps the files that
\* exist and creates only the first free name (the plain name, else the
\* lowest free suffix from 1 up), and every search for a free name ends
\* with the report written.
C16_ReportsNeverOverwritten ==
    /\ [][ReportStepKeepsFiles]_vars
    /\ (rp.state = "collisions") ~> (rp.state = "ready")

\* three reports written into a directory that already held the plain
\* Markdown name and suffix 2: the writes went to suffix 1 and past 2, and
\* the files that were there are unchanged
C16_Witness ==
    /\ rp.state = "ready"
    /\ rp.writes = 3
    /\ rp.files[<<"md", 0>>] = 1
    /\ rp.files[<<"md", 1>>] > 1
    /\ rp.files[<<"md", 2>>] = 1
    /\ rp.files[<<"md", 3>>] > 1

(***************************************************************************)
(* Claims about the profile gate of Level 2                                *)
(***************************************************************************)
\* the findings the validator-inventory check makes: contradictions, and
\* the missing ground truth
ValidatorCheckFindings ==
    {i \in 1..Len(l2.findings) :
       \/ l2.findings[i].category = "doc_contradiction"
       \/ (l2.findings[i].category = "inventory_mismatch"
           /\ l2.findings[i].file = "validators/__init__.py")}

\* C17: in a run started by main() on a repository without a validators/
\* directory that holds an __init__.py, Level 2 has no finding of the
\* validator-inventory check.
C17_NoValidatorsNoInventoryCheck ==
    ("caller" \in DOMAIN l2 /\ l2.caller = "main"
     /\ ~(l2.validators_is_dir /\ l2.init_exists)) =>
      ValidatorCheckFindings = {}

\* the same for callers that pass the detected profile
C17_GateOfDetectedProfile ==
    ("caller" \in DOMAIN l2 /\ l2.caller = "run_level2"
     /\ ~(l2.validators_is_dir /\ l2.init_exists)) =>
      ValidatorCheckFindings = {}

\* a call with the detected profile of a repository without validators has
\* skipped the check
C17_GateWitness ==
    /\ "caller" \in DOMAIN l2
    /\ l2.caller = "run_level2"
    /\ ~l2.validators_is_dir
    /\ l2.state = "done"

(***************************************************************************)
(* Claims about confidence and review                                      *)
(***************************************************************************)
\* the findings of the level checkers that are running or have run
LevelFindings ==
    (IF "findings" \in DOMAIN l1 THEN Elements(l1.findings) ELSE {})
    \cup (IF "findings" \in DOMAIN l2 THEN Elements(l2.findings) ELSE {})
    \cup (IF "findings" \in DOMAIN l3 THEN Elements(l3.findings) ELSE {})

\* C18: every finding of a level with confidence low requires review, and
\* every finding with confidence high does not.
C18_ReviewIffLowConfidence ==
    \A f \in LevelFindings :
      /\ f.confidence = "low" => f.requires_review
      /\ f.confidence = "high" => ~f.requires_review

\* a finished Level 3 with an orphan candidate of low confidence, one of high
\* confidence and a root-level configuration file
C18_Witness ==
    /\ l3.state = "done"
    /\ \E a, b, c \in Elements(l3.findings) :
         /\ a.category = "orphan_candidate" /\ a.confidence = "low" /\ a.requires_review
         /\ b.category = "orphan_candidate" /\ b.confidence = "high" /\ ~b.requires_review
         /\ c.category = "misplaced_artifact" /\ c.confidence = "low" /\ c.requires_review

(***************************************************************************)
(* Claims about the extractors                                             *)
(***************************************************************************)
\* C19: an extractor that has ended has returned, and it has returned its
\* empty value when the file is missing, unreadable or undecodable.
C19_ExtractorsNeverRaise ==
    xt.state = "done" =>
      /\ xt.result.kind = "return"
      /\ xt.file.kind # "text" => xt.result.value = empty_value(xt.op)

\* what holds of the extractors: a missing file gives the empty value, and
\* text never makes them raise
C19_MissingFileGivesEmpty ==
    xt.state = "done" =>
      /\ xt.file.kind = "missing" =>
           (xt.result.kind = "return" /\ xt.result.value = empty_value(xt.op))
      /\ xt.file.kind = "text" => xt.result.kind = "return"

\* an extractor has returned links from a text
C19_TextWitness ==
    /\ xt.state = "done"
    /\ xt.op = "extract_internal_links"
    /\ xt.result.kind = "return"
    /\ xt.result.value # <<>>

(***************************************************************************)
(* Claims about the delegated validators of Level 1                        *)
(***************************************************************************)
\* the script ran to an end within the timeout, with text that could be
\* captured, and returned a code other than 0
ExitedNonZero(script) ==
    /\ script.exists /\ script.starts
    /\ script.duration <= 30
    /\ script.decodable
    /\ script.returncode # 0

\* the findings made for the script's file
DelegatedFindings(file) ==
    {i \in 1..Len(l1.findings) : l1.findings[i].file = file}

\* the first 500 characters of stdout followed by stderr
First500(script) ==
    IF script.out >= 500 THEN [out |-> 500, err |-> 0]
    ELSE IF script.out + script.err >= 500 THEN [out |-> script.out, err |-> 500 - script.out]
    ELSE [out |-> script.out, err |-> script.err]

\* what the claim says of one script once its check has run
DelegatedOutcome(script, file) ==
    IF ExitedNonZero(script)
    THEN /\ Cardinality(DelegatedFindings(file)) = 1
         /\ \A i \in DelegatedFindings(file) :
              /\ l1.findings[i].severity = "MAJOR"
              /\ l1.findings[i].context.output = First500(script)
              /\ l1.findings[i].context.output.out + l1.findings[i].context.output.err <= 500
    ELSE DelegatedFindings(file) = {}

GitSucceeded(command) ==
    xt.git_present /\ command.kind = "exit" /\ command.returncode = 0

\* the command's output without the surrounding white space
RealValue(command) == rstrip(lstrip(command.stdout, GitWhitespace), GitWhitespace)

\* what the field of the command has to be
ExpectedField(command) ==
    IF GitSucceeded(command) THEN RealValue(command) ELSE unknown

\* C21: get_git_info returns, and each of the two fields is the real value
\* of its command when that command succeeded and 'unknown' when git is
\* absent, the command exited non-zero or it timed out.
C21_GitInfoPerField ==
    (xt.op = "get_git_info" /\ xt.state = "done") =>
      /\ xt.result.kind = "return"
      /\ xt.result.sha = ExpectedField(xt.sha_command)
      /\ xt.result.branch = ExpectedField(xt.branch_command)

\* what holds: get_git_info returns; a field whose command did not succeed
\* is 'unknown'; both fields are real when both commands succeeded
C21_GitInfoDegrades ==
    (xt.op = "get_git_info" /\ xt.state = "done") =>
      /\ xt.result.kind = "return"
      /\ ~GitSucceeded(xt.sha_command) => xt.result.sha = unknown
      /\ ~GitSucceeded(xt.branch_command) => xt.result.branch = unknown
      /\ (GitSucceeded(xt.sha_command) /\ GitSucceeded(xt.branch_command)) =>
           /\ xt.result.sha = RealValue(xt.sha_command)
           /\ xt.result.branch = RealValue(xt.branch_command)

\* the short hash was read and the branch command then timed out
C21_TimeoutAfterSha ==
    /\ xt.op = "get_git_info" /\ xt.state = "done"
    /\ GitSucceeded(xt.sha_command)
    /\ xt.branch_command.kind = "timeout"
    /\ xt.sha = RealValue(xt.sha_command)
    /\ xt.result.sha = unknown

(***************************************************************************)
(* Claims about Level 1's validator inventory                              *)
(***************************************************************************)
\* the validator a file check_<name>.py holds: its name without the leading
\* check_ and the trailing .py
NameOfFile(f) == SubSeq(f, 7, Len(f) - 3)

FilesOnDisk == { NameOfFile(f) : f \in l1.actual_files }

InventoryFindings(message) ==
    {i \in 1..Len(l1.findings) :
       /\ l1.findings[i].category = "inventory_mismatch"
       /\ l1.findings[i].severity = "CRITICAL"
       /\ l1.findings[i].message = message}

\* what the reconciliation has to report for the set F of names on disk
ReconciledAgainst(F) ==
    LET R == l1.registered
        unreg == InventoryFindings("Validators exist but not in AVAILABLE_VALIDATORS")
        miss == InventoryFindings("Validators registered but files missing")
    IN /\ Len(l1.findings) = Cardinality(unreg) + Cardinality(miss)
       /\ IF F \ R # {}
          THEN Cardinality(unreg) = 1 /\ \A i \in unreg : l1.findings[i].listed = F \ R
          ELSE unreg = {}
       /\ IF R \ F # {}
          THEN Cardinality(miss) = 1 /\ \A i \in miss : l1.findings[i].listed = R \ F
          ELSE miss = {}

\* C23: with F the names of the check_*.py files on disk and R the
\* registered names, the check reports one CRITICAL finding listing F \ R
\* iff that is non-empty, one listing R \ F iff that is non-empty, and
\* nothing else.
C23_InventoryReconciled ==
    (l1.op = "_check_validator_inventory" /\ l1.state = "done") =>
      ReconciledAgainst(FilesOnDisk)

\* what holds: the same with F the file names after every "check_" and
\* every ".py" in them was deleted
C23_ReconciledOnDerivedNames ==
    (l1.op = "_check_validator_inventory" /\ l1.state = "done") =>
      ReconciledAgainst({ actual_name(f) : f \in l1.actual_files })

\* the registered validator recheck_c has its file, and two findings are
\* reported
C23_RegisteredFileReported ==
    /\ l1.op = "_check_validator_inventory" /\ l1.state = "done"
    /\ FilesOnDisk = l1.registered
    /\ FilesOnDisk # {}
    /\ Len(l1.findings) = 2

(***************************************************************************)
(* Claims about malformed rules and unreadable files in Level 1            *)
(***************************************************************************)
\* the rule is well formed: its severity is one of the four and its
\* pattern is a regular expression
WellFormed(rule) ==
    /\ ("severity" \in DOMAIN rule => rule.severity \in {"CRITICAL", "MAJOR", "MINOR", "INFO"})
    /\ ("pattern" \in DOMAIN rule => "(" \notin Elements(rule.pattern))

\* every well-formed rule with a pattern, listed once, has one finding per
\* counted match in every line of every scanned readable file
WellFormedRulesReported ==
    LET sp == l1.rules.stale_path_patterns
    IN \A r \in 1..Len(sp) :
         ("pattern" \in DOMAIN sp[r] /\ WellFormed(sp[r]) /\ ~ReplacementMissing(sp[r])
          /\ \A q \in 1..Len(sp) : (q # r => sp[q] # sp[r])) =>
           \A f \in Elements(MdFiles) :
             (CanonicalIn(l1.rules, f) /\ readable_file(l1.repo, f)) =>
               \A n \in 1..Len(content_of(l1.repo, f)) :
                 Cardinality(StaleFindings(r, f, n))
                   = Cardinality(CountedMatches(sp[r], content_of(l1.repo, f)[n]))

\* C24: the stale-path check never raises, whatever rules are malformed and
\* files unreadable, and when it has returned the well-formed rules have
\* their findings in the readable files.
C24_MalformedSkippedLocally ==
    l1.op = "_check_stale_paths" =>
      /\ l1.state # "raised"
      /\ l1.state = "done" => WellFormedRulesReported

\* what holds: when no rule has a severity outside the four, the check
\* does not raise, and the rules that are no regular expression and the
\* unreadable files are passed over
C24_BadPatternAndFileSkipped ==
    (l1.op = "_check_stale_paths"
     /\ \A r \in 1..Len(l1.rules.stale_path_patterns) :
          get(l1.rules.stale_path_patterns[r], "severity", "MINOR")
            \in {"CRITICAL", "MAJOR", "MINOR", "INFO"}) =>
      /\ l1.state # "raised"
      /\ l1.state = "done" => WellFormedRulesReported

\* a finished check that passed over a bad pattern and an unreadable file
\* and reported the other rule
C24_SkippedWitness ==
    /\ l1.op = "_check_stale_paths" /\ l1.state = "done"
    /\ \E r \in 1..Len(l1.rules.stale_path_patterns) :
         ~WellFormed(l1.rules.stale_path_patterns[r])
    /\ CanonicalIn(l1.rules, docs_guide_md) /\ ~l1.repo.guide_readable
    /\ l1.findings # <<>>

(***************************************************************************)
(* Claims about two runs of Level 1                                        *)
(***************************************************************************)
\* a finding without its id
WithoutId(f) == [f EXCEPT !.id = "any"]

\* the second run of Level 1 has returned
SecondRunDone ==
    /\ l1.op = "run_level1"
    /\ "run" \in DOMAIN l1
    /\ l1.run = 2
    /\ l1.state = "done"

CalledInOrder ==
    /\ Len(xt.called) <= Len(xt.targets)
    /\ \A k \in 1..Len(xt.called) : xt.called[k].target = xt.targets[k]

\* only the last call can have returned a non-zero status
OnlyLastFailed ==
    \A k \in 1..Len(xt.called) : xt.called[k].result # 0 => k = Len(xt.called)

\* what run_all returns, from the requested names and the calls made
RunAllOutcome ==
    IF \E k \in 1..Len(xt.targets) : xt.targets[k] \notin DOMAIN AVAILABLE_VALIDATORS
    THEN xt.returned = 2 /\ xt.called = <<>>
    ELSE IF xt.called # <<>> /\ xt.called[Len(xt.called)].result # 0
    THEN xt.returned = xt.called[Len(xt.called)].result
    ELSE xt.returned = 0 /\ Len(xt.called) = Len(xt.targets)

\* a step of run_all calls at most one validator, and none after a failure
OneCallAtATime ==
    xt.op = "run_all" =>
      /\ Len(xt'.called) <= Len(xt.called) + 1
      /\ (xt.called # <<>> /\ xt.called[Len(xt.called)].result # 0) => xt'.called = xt.called

\* C25: run_all calls the requested validators one at a time in the order
\* given, stops at the first non-zero status and returns it, returns 0 only
\* when every requested validator returned 0, and returns 2 without calling
\* any validator when a requested name is not registered.
C25_RunAllStopsAtFirstFailure ==
    /\ [](xt.op = "run_all" => CalledInOrder /\ OnlyLastFailed)
    /\ [](xt.op = "run_all" /\ xt.state = "done" => RunAllOutcome)
    /\ [][OneCallAtATime]_vars

\* run_all returned the status of the second of three registered validators
C25_Witness ==
    /\ xt.op = "run_all"
    /\ xt.state = "done"
    /\ Len(xt.targets) = 3
    /\ Len(xt.called) = 2
    /\ xt.called[1].result = 0
    /\ xt.returned = 1

\* run_all returned 2 for a list whose last name is not registered
C25_UnknownWitness ==
    /\ xt.op = "run_all"
    /\ xt.state = "done"
    /\ Len(xt.targets) = 3
    /\ xt.targets[1] \in DOMAIN AVAILABLE_VALIDATORS
    /\ xt.targets[3] = "houston_bogus"
    /\ xt.returned = 2

(***************************************************************************)
(* Claims about extract_internal_links                                     *)
(***************************************************************************)
\* line n of the document starts with a fence once stripped
FenceLine(n) ==
    LET t == strip(xt.lines[n])
    IN (Len(t) >= 3) /\ (SubSeq(t, 1, 3) \in { <<Backtick, Backtick, Backtick>>, <<"~", "~", "~">> })

\* the number of fence lines before line n is odd
InsideFence(n) == Cardinality({ k \in 1..(n - 1) : FenceLine(k) }) % 2 = 1

\* the target of the link that starts at position i of line n is internal
InternalTarget(m) ==
    /\ \A pre \in external_prefixes :
         ~(Len(m.text) >= Len(pre) /\ SubSeq(m.text, 1, Len(pre)) = pre)
    /\ m.text[1] # "#"

\* the links the document shows outside fences: line, 0-based column, and
\* the target up to its anchor
ShownLinks ==
    UNION { LET ms == finditer_links(xt.lines[n], 1)
            IN { [line |-> n, column |-> ms[q].start - 1,
                  target |-> split(ms[q].text, "#")[1]] :
                   q \in { q \in 1..Len(ms) : InternalTarget(ms[q]) } } :
            n \in { n \in 1..Len(xt.lines) : ~FenceLine(n) /\ ~InsideFence(n) } }

ReturnedLink(i) ==
    [line |-> xt.links[i].line, column |-> xt.links[i].column, target |-> xt.links[i].target]

\* C26: the code-block flag is the parity of the fence lines read so far,
\* and the links returned are the internal links on lines that are neither
\* a fence nor inside one, each once, with line and column, in document
\* order.
C26_LinksOutsideFences ==
    /\ xt.op = "extract_internal_links" =>
         xt.in_code_block = InsideFence(xt.line_num)
    /\ (xt.op = "extract_internal_links" /\ xt.state = "done") =>
         /\ \A i \in 1..Len(xt.links) : ReturnedLink(i) \in ShownLinks
         /\ \A e \in ShownLinks :
              Cardinality({ i \in 1..Len(xt.links) : ReturnedLink(i) = e }) = 1
         /\ \A i, j \in 1..Len(xt.links) :
              i < j => \/ xt.links[i].line < xt.links[j].line
                       \/ /\ xt.links[i].line = xt.links[j].line
                          /\ xt.links[i].column < xt.links[j].column

\* a document with a link, a fence opened by ~~~ hiding a link, and none
\* returned from inside
C26_Witness ==
    /\ xt.op = "extract_internal_links"
    /\ xt.state = "done"
    /\ Len(xt.lines) = 3
    /\ xt.lines[1] = <<"[", "a", "]", "(", "x", ".", "m", "d", "#", "s", ")", " ", "[", "b", "]", "(", "#", "c", ")">>
    /\ xt.lines[2] \in FenceLines
    /\ xt.lines[2][1] = " "
    /\ xt.lines[3] = <<"s", "e", "e", " ", "[", "a", "]", "(", "b", ".", "m", "d", ")">>
    /\ Len(xt.links) = 1

(***************************************************************************)
(* Claims about the directory-map part of the generator check              *)
(***************************************************************************)
\* the positions of the directory-map findings: MAJOR generator_drift
\* findings that count omitted validators
DirectoryMapFindings ==
    {i \in 1..Len(l2.findings) :
        /\ l2.findings[i].category = "generator_drift"
        /\ l2.findings[i].severity = "MAJOR"
        /\ "missing" \in DOMAIN l2.findings[i].context}

\* the registered validators whose name the primer does not show
AbsentFromPrimer == { v \in l2.ground_truth : v \notin l2.primer_validators }

\* C27: when the generator check has returned for an existing primer of a
\* repository with validators, there is one directory-map finding if two or
\* more registered validators are absent from the primer and none
\* otherwise, whatever the hash-staleness findings are.
C27_DirectoryMapFromTwoMissing ==
    (/\ l2.state = "done" /\ l2.op = "_check_generator_drift"
     /\ l2.primer_exists
     /\ (~l2.profile.given \/ l2.profile.has_validators)) =>
      /\ Cardinality(DirectoryMapFindings) = (IF Cardinality(AbsentFromPrimer) >= 2 THEN 1 ELSE 0)
      /\ Len(l2.findings) = Cardinality(HashStaleness) + Cardinality(DirectoryMapFindings)
      /\ \A i \in DirectoryMapFindings :
           /\ i = Len(l2.findings)
           /\ l2.findings[i].context.missing = Cardinality(AbsentFromPrimer)

\* exactly two validators are absent and the finding follows a MAJOR
\* staleness finding
C27_Witness ==
    /\ l2.state = "done" /\ l2.op = "_check_generator_drift"
    /\ l2.profile.given
    /\ Cardinality(AbsentFromPrimer) = 2
    /\ l2.primer_validators = {1}
    /\ DirectoryMapFindings = {2}
    /\ \E i \in HashStaleness : l2.findings[i].severity = "MAJOR"

\* one validator is absent, the hashes agree, and nothing is reported
C27_OneMissingSilent ==
    /\ l2.state = "done" /\ l2.op = "_check_generator_drift"
    /\ l2.primer_exists
    /\ ~l2.profile.given
    /\ Cardinality(AbsentFromPrimer) = 1
    /\ l2.findings = <<>>

\* the finding stands alone, and it follows an INFO staleness finding
C27_AloneAndWithInfo ==
    /\ l2.state = "done" /\ l2.op = "_check_generator_drift"
    /\ DirectoryMapFindings # {}
    /\ \/ Len(l2.findings) = 1
       \/ \E i \in HashStaleness : l2.findings[i].severity = "INFO"

(***************************************************************************)
(* Claims about the ids of one run                                         *)
(***************************************************************************)
\* the positions of the findings detected at level L
AtLevel(L) == { i \in 1..Len(findings) : findings[i].level_detected = L }

\* the id with number k of level L
IdOf(L, k) == [prefix |-> "DRIFT-L", level |-> L, seq |-> Format03d(k)]

\* a step that changes the counter adds one to the count of one level
CounterStep ==
    counts' # counts => \E L \in 1..3 : counts' = [counts EXCEPT ![L] = @ + 1]

\* C28: when a run is over, the findings of each level carry, in list order,
\* the ids DRIFT-L<level>-001, ..., -n without gap or repeat, n being the
\* number of findings of the level, each level starting at 001 after the
\* findings of the lower levels; a step of the counter adds one to one
\* level's count and leaves the others.  (The levels run in order, so the
\* k-th finding of level L stands k places after the findings of the levels
\* below L.)
C28_IdsNumberedPerLevel ==
    /\ [](pc = "done" =>
            \A L \in 1..3 :
              LET below == Cardinality({ i \in 1..Len(findings) :
                                           findings[i].level_detected < L })
              IN /\ counts[L] = Cardinality(AtLevel(L))
                 /\ \A i \in AtLevel(L) : findings[i].id = IdOf(L, i - below))
    /\ [][CounterStep]_vars

\* a finished run of three levels with two Level 1 findings whose first
\* Level 2 and Level 3 findings are numbered 001
C28_Witness ==
    /\ pc = "done"
    /\ counts[1] = 2
    /\ \E i, j \in 1..Len(findings) :
         /\ findings[i].level_detected = 2
         /\ findings[i].id.seq = <<0, 0, 1>>
         /\ findings[j].level_detected = 3
         /\ findings[j].id.seq = <<0, 0, 1>>

(***************************************************************************)
(* Claims about the reference graph                                        *)
(***************************************************************************)
Forward == l3.graph.forward
Reverse == l3.graph.reverse

\* rel_path is named by canonical_scope, exactly or by a glob
InCanonicalScope(rel_path) ==
    \E n \in 1..Len(l3.rules.canonical_scope) :
       LET pattern == l3.rules.canonical_scope[n]
       IN IF "*" \in Elements(pattern)
          THEN rel_path \in Elements(glob(l3.repo, pattern))
          ELSE rel_path = pattern /\ rel_path \in Elements(repo_files(l3.repo))

Excluded(rel_path) ==
    \E n \in 1..Len(l3.rules.excludes) : fnmatch(rel_path, l3.rules.excludes[n])

\* the files whose iteration of the scanning loop is over
Scanned ==
    { f \in Elements(files_to_scan(l3.repo, l3.rules)) :
        l3.state # "call" /\ f \notin Elements(l3.files_to_scan) }

\* C29: after each file scanned (a file listed twice is scanned twice), b
\* is in forward[a] iff a is in reverse[b]; the keys of forward are scanned
\* files of the canonical scope that no excludes pattern matches, and no
\* excluded file is the source of an edge.
C29_GraphConsistent ==
    /\ \A a \in DOMAIN Forward : \A b \in Forward[a] :
         b \in DOMAIN Reverse /\ a \in Reverse[b]
    /\ \A b \in DOMAIN Reverse : \A a \in Reverse[b] :
         a \in DOMAIN Forward /\ b \in Forward[a]
    /\ \A a \in DOMAIN Forward :
         /\ InCanonicalScope(a)
         /\ ~Excluded(a)
         /\ a \in Scanned \/ a \in Elements(l3.files_to_scan)
    /\ \A b \in DOMAIN Reverse : \A a \in Reverse[b] : ~Excluded(a)

\* README.md was listed twice and scanned twice, and has an edge
C29_Witness ==
    /\ l3.state = "orphans"
    /\ Len(l3.rules.canonical_scope) = 2
    /\ l3.rules.canonical_scope[1] = README_md
    /\ "*" \in Elements(l3.rules.canonical_scope[2])
    /\ Cardinality({ n \in 1..Len(files_to_scan(l3.repo, l3.rules)) :
                       files_to_scan(l3.repo, l3.rules)[n] = README_md }) = 2
    /\ README_md \in DOMAIN Forward
    /\ Forward[README_md] # {}
    /\ docs_guide_md \notin DOMAIN Forward

(***************************************************************************)
(* Claims about what the stale-path check scans and reports                *)
(***************************************************************************)
\* the match at start..end of the line stands in a path context: an odd
\* number of backticks before it, next to '/', '\' or '.', or right after
\* '](' (after '](' and white space when `spaced`)
PathContext(line, start, end, spaced) ==
    LET ticks == Cardinality({ k \in 1..(start - 1) : line[k] = Backtick })
        last == IF spaced
                THEN Cardinality({ k \in 1..(start - 1) :
                                     \E j \in k..(start - 1) : line[j] \notin Whitespace })
                ELSE start - 1
    IN \/ ticks % 2 = 1
       \/ (start > 1 /\ line[start - 1] \in {"/", "\\", "."})
       \/ (end < Len(line) /\ line[end + 1] \in {"/", "\\", "."})
       \/ (last >= 2 /\ line[last - 1] = "]" /\ line[last] = "(")

\* the occurrences of the rule's pattern in the line that are to be reported
ReportedMatches(rule, line, spaced) ==
    LET ms == finditer_literal(line, rule.pattern, 1)
    IN {k \in 1..Len(ms) :
          ("require_path_context" \in DOMAIN rule /\ rule.require_path_context) =>
            PathContext(line, ms[k].start, ms[k].end, spaced)}

\* how many times the scan list names the file
Listings(f) ==
    Cardinality({ n \in 1..Len(stale_files_to_scan(l1.repo, l1.rules)) :
                    stale_files_to_scan(l1.repo, l1.rules)[n] = f })

\* every stale_path finding is about a canonical-scope file that no
\* excludes pattern matches, and every rule that applies (it has a pattern,
\* is not skipped by check_exists and stands once in the list) has, in
\* every line of every scanned readable file, times(f) findings per
\* reported match, with the rule's severity
StaleScanReports(spaced, times(_)) ==
    LET sp == l1.rules.stale_path_patterns
    IN /\ \A i \in 1..Len(l1.findings) :
            /\ CanonicalIn(l1.rules, l1.findings[i].file)
            /\ ~(\E n \in 1..Len(l1.rules.excludes) :
                   fnmatch(l1.findings[i].file, l1.rules.excludes[n]))
       /\ \A r \in 1..Len(sp) :
            ("pattern" \in DOMAIN sp[r] /\ ~ReplacementMissing(sp[r])
             /\ \A q \in 1..Len(sp) : (q # r => sp[q] # sp[r])) =>
              \A f \in Elements(MdFiles) :
                (CanonicalIn(l1.rules, f) /\ readable_file(l1.repo, f)) =>
                  \A n \in 1..Len(content_of(l1.repo, f)) :
                    /\ Cardinality(StaleFindings(r, f, n))
                         = times(f) * Cardinality(ReportedMatches(sp[r], content_of(l1.repo, f)[n], spaced))
                    /\ \A i \in StaleFindings(r, f, n) :
                         l1.findings[i].severity =
                           (IF "severity" \in DOMAIN sp[r] THEN sp[r].severity ELSE "MINOR")

Once(f) == 1

\* C30: when the stale-path check has returned, its findings are about
\* canonical-scope files that no excludes pattern matches, there is one
\* finding per match of an applying rule per line, with the rule's severity
\* and message, and for a rule with require_path_context a match that is
\* not in backticks, not next to '/', '\' or '.', and not right after ']('
\* has no finding.
C30_OneFindingPerMatch ==
    (l1.op = "_check_stale_paths" /\ l1.state = "done") => StaleScanReports(FALSE, Once)

\* what holds instead: a file is scanned once per entry of the scan list,
\* each scan reporting every match anew, and white space may stand between
\* '](' and the match
C30_OneFindingPerMatchPerListing ==
    (l1.op = "_check_stale_paths" /\ l1.state = "done") => StaleScanReports(TRUE, Listings)

\* README.md, listed twice, has one match of a rule and two findings
C30_ReportedTwice ==
    /\ l1.op = "_check_stale_paths" /\ l1.state = "done"
    /\ Listings(README_md) = 2
    /\ Len(l1.rules.stale_path_patterns) = 1
    /\ Len(l1.repo.readme) = 1
    /\ Len(l1.findings) = 2
    /\ l1.findings[1].file = README_md
    /\ l1.findings[2].file = README_md
    /\ l1.findings[1].line = l1.findings[2].line
    /\ Len(finditer_literal(l1.repo.readme[1], l1.rules.stale_path_patterns[1].pattern, 1)) = 1

====
